---- MODULE Spec2Model ----
(***************************************************************************)
(* Kubernetes GenAI agent: the operation catalog and executor of           *)
(* k8s_tools.py (K8sTools), the cluster client boundary of k8s_client.py   *)
(* (K8sClient) and the conversation orchestrator of k8s_agent.py           *)
(* (K8sAgent).                                                             *)
(*                                                                         *)
(* Python values are carried as follows.  Every scalar (str, int) is a     *)
(* TLA+ string holding its text, so 100 is "100"; None is the value None   *)
(* below.  A dict is a set of <<key, value>> pairs with distinct keys.  A  *)
(* Python call either returns a value or raises an exception; it is the    *)
(* record Return(v) or Raise(type, msg), where msg is str(e).  The         *)
(* K8sClient methods that compute with numbers and flags (ages, restart    *)
(* counts, ready) keep them as integers and booleans.                      *)
(***************************************************************************)
EXTENDS Integers, Sequences, FiniteSets, TLC

VARIABLES
  toolIn,                \* the arguments of a direct K8sTools.execute_tool call
  toolOut,               \* what that call did: its outcome and its client calls
  conversation_history,  \* K8sAgent.conversation_history, per agent instance
  system_prompt,         \* K8sAgent.system_prompt, per agent instance
  frame,                 \* per thread: the position in and the locals of chat
  turns,                 \* number of chat calls started so far
  snapshot,              \* the list a caller got from get_conversation_history
  clientIn,              \* the arguments of a direct K8sClient method call
  clientOut,             \* the outcome of that call
  environ,               \* os.environ
  configIn,              \* the arguments of a configuration or constructor call
  configOut              \* the outcome of that call

\* What belongs to the callers of K8sAgent and of K8sClient.
callerVars == <<snapshot, clientIn, clientOut, environ, configIn, configOut>>

vars == <<toolIn, toolOut, conversation_history, system_prompt, frame, turns,
          callerVars>>

-----------------------------------------------------------------------------
(* Python values *)

None == "None"

Return(v) == [kind |-> "return", value |-> v]

Raise(type, msg) == [kind |-> "raise", exc |-> [type |-> type, msg |-> msg]]

NoOutcome == [kind |-> "none"]

Dict(items) == [kind |-> "dict", items |-> items]

NotADict == [kind |-> "list", items |-> {}]

DictKeys(d) == {p[1] : p \in d.items}

DictValue(d, k) == (CHOOSE p \in d.items : p[1] = k)[2]

SeqToSet(s) == {s[i] : i \in DOMAIN s}

-----------------------------------------------------------------------------
(* K8sTools.get_tool_definitions: the catalog.  Each entry keeps the name, *)
(* the properties with their types in schema order, the "required" list    *)
(* and the declared defaults.                                              *)

get_tool_definitions ==
  <<
  [name |-> "list_pods",
     properties |-> <<<<"namespace", "string">>, <<"label_selector", "string">>>>,
     required |-> <<>>,
     defaults |-> {<<"namespace", "default">>}],
  [name |-> "list_deployments",
     properties |-> <<<<"namespace", "string">>>>,
     required |-> <<>>,
     defaults |-> {<<"namespace", "default">>}],
  [name |-> "list_services",
     properties |-> <<<<"namespace", "string">>>>,
     required |-> <<>>,
     defaults |-> {<<"namespace", "default">>}],
  [name |-> "list_namespaces",
     properties |-> <<>>,
     required |-> <<>>,
     defaults |-> {}],
  [name |-> "scale_deployment",
     properties |-> <<<<"name", "string">>, <<"replicas", "integer">>, <<"namespace", "string">>>>,
     required |-> <<"name", "replicas">>,
     defaults |-> {<<"namespace", "default">>}],
  [name |-> "delete_pod",
     properties |-> <<<<"name", "string">>, <<"namespace", "string">>>>,
     required |-> <<"name">>,
     defaults |-> {<<"namespace", "default">>}],
  [name |-> "get_pod_logs",
     properties |-> <<<<"name", "string">>, <<"namespace", "string">>, <<"tail_lines", "integer">>>>,
     required |-> <<"name">>,
     defaults |-> {<<"namespace", "default">>, <<"tail_lines", "100">>}],
  [name |-> "create_namespace",
     properties |-> <<<<"name", "string">>, <<"labels", "object">>>>,
     required |-> <<"name">>,
     defaults |-> {}],
  [name |-> "delete_namespace",
     properties |-> <<<<"name", "string">>>>,
     required |-> <<"name">>,
     defaults |-> {}],
  [name |-> "get_cluster_info",
     properties |-> <<>>,
     required |-> <<>>,
     defaults |-> {}],
  [name |-> "create_pod",
     properties |-> <<<<"name", "string">>, <<"image", "string">>, <<"namespace", "string">>, <<"port", "integer">>, <<"env_vars", "object">>, <<"labels", "object">>>>,
     required |-> <<"name", "image">>,
     defaults |-> {<<"namespace", "default">>}],
  [name |-> "create_deployment",
     properties |-> <<<<"name", "string">>, <<"image", "string">>, <<"replicas", "integer">>, <<"namespace", "string">>, <<"port", "integer">>, <<"env_vars", "object">>, <<"labels", "object">>>>,
     required |-> <<"name", "image">>,
     defaults |-> {<<"replicas", "1">>, <<"namespace", "default">>}],
  [name |-> "create_service",
     properties |-> <<<<"name", "string">>, <<"port", "integer">>, <<"target_port", "integer">>, <<"namespace", "string">>, <<"service_type", "string">>, <<"selector", "object">>>>,
     required |-> <<"name", "port", "target_port">>,
     defaults |-> {<<"namespace", "default">>, <<"service_type", "ClusterIP">>}],
  [name |-> "create_configmap",
     properties |-> <<<<"name", "string">>, <<"data", "object">>, <<"namespace", "string">>, <<"labels", "object">>>>,
     required |-> <<"name", "data">>,
     defaults |-> {<<"namespace", "default">>}],
  [name |-> "create_secret",
     properties |-> <<<<"name", "string">>, <<"data", "object">>, <<"namespace", "string">>, <<"secret_type", "string">>, <<"labels", "object">>>>,
     required |-> <<"name", "data">>,
     defaults |-> {<<"namespace", "default">>, <<"secret_type", "Opaque">>}],
  [name |-> "list_configmaps",
     properties |-> <<<<"namespace", "string">>>>,
     required |-> <<>>,
     defaults |-> {<<"namespace", "default">>}],
  [name |-> "list_secrets",
     properties |-> <<<<"namespace", "string">>>>,
     required |-> <<>>,
     defaults |-> {<<"namespace", "default">>}],
  [name |-> "update_pod_image",
     properties |-> <<<<"name", "string">>, <<"container_name", "string">>, <<"new_image", "string">>, <<"namespace", "string">>>>,
     required |-> <<"name", "container_name", "new_image">>,
     defaults |-> {<<"namespace", "default">>}],
  [name |-> "update_deployment_image",
     properties |-> <<<<"name", "string">>, <<"container_name", "string">>, <<"new_image", "string">>, <<"namespace", "string">>>>,
     required |-> <<"name", "container_name", "new_image">>,
     defaults |-> {<<"namespace", "default">>}],
  [name |-> "update_configmap",
     properties |-> <<<<"name", "string">>, <<"data", "object">>, <<"namespace", "string">>>>,
     required |-> <<"name", "data">>,
     defaults |-> {<<"namespace", "default">>}],
  [name |-> "delete_deployment",
     properties |-> <<<<"name", "string">>, <<"namespace", "string">>>>,
     required |-> <<"name">>,
     defaults |-> {<<"namespace", "default">>}],
  [name |-> "delete_service",
     properties |-> <<<<"name", "string">>, <<"namespace", "string">>>>,
     required |-> <<"name">>,
     defaults |-> {<<"namespace", "default">>}],
  [name |-> "delete_configmap",
     properties |-> <<<<"name", "string">>, <<"namespace", "string">>>>,
     required |-> <<"name">>,
     defaults |-> {<<"namespace", "default">>}],
  [name |-> "delete_secret",
     properties |-> <<<<"name", "string">>, <<"namespace", "string">>>>,
     required |-> <<"name">>,
     defaults |-> {<<"namespace", "default">>}]
  >>

-----------------------------------------------------------------------------
(* K8sTools.execute_tool: the if/elif chain.  Each branch is the tool name *)
(* it compares with, its parameter reads in statement order (a subscript   *)
(* parameters["k"] or a parameters.get("k", default)), the K8sClient       *)
(* method it calls with the values read, in that order, and how it wraps   *)
(* the result ("logs" for {"logs": result}).                               *)

ExecBranches ==
  <<
  [tool_name |-> "list_pods",
     accesses |-> <<[op |-> "get", key |-> "namespace", default |-> "default"],
                   [op |-> "get", key |-> "label_selector", default |-> None]>>,
     method |-> "get_pods",
     wrap |-> "result"],
  [tool_name |-> "list_deployments",
     accesses |-> <<[op |-> "get", key |-> "namespace", default |-> "default"]>>,
     method |-> "get_deployments",
     wrap |-> "result"],
  [tool_name |-> "list_services",
     accesses |-> <<[op |-> "get", key |-> "namespace", default |-> "default"]>>,
     method |-> "get_services",
     wrap |-> "result"],
  [tool_name |-> "list_namespaces",
     accesses |-> <<>>,
     method |-> "get_namespaces",
     wrap |-> "result"],
  [tool_name |-> "scale_deployment",
     accesses |-> <<[op |-> "subscript", key |-> "name", default |-> None],
                   [op |-> "subscript", key |-> "replicas", default |-> None],
                   [op |-> "get", key |-> "namespace", default |-> "default"]>>,
     method |-> "scale_deployment",
     wrap |-> "result"],
  [tool_name |-> "delete_pod",
     accesses |-> <<[op |-> "subscript", key |-> "name", default |-> None],
                   [op |-> "get", key |-> "namespace", default |-> "default"]>>,
     method |-> "delete_pod",
     wrap |-> "result"],
  [tool_name |-> "get_pod_logs",
     accesses |-> <<[op |-> "subscript", key |-> "name", default |-> None],
                   [op |-> "get", key |-> "namespace", default |-> "default"],
                   [op |-> "get", key |-> "tail_lines", default |-> "100"]>>,
     method |-> "get_pod_logs",
     wrap |-> "logs"],
  [tool_name |-> "create_namespace",
     accesses |-> <<[op |-> "subscript", key |-> "name", default |-> None],
                   [op |-> "get", key |-> "labels", default |-> None]>>,
     method |-> "create_namespace",
     wrap |-> "result"],
  [tool_name |-> "delete_namespace",
     accesses |-> <<[op |-> "subscript", key |-> "name", default |-> None]>>,
     method |-> "delete_namespace",
     wrap |-> "result"],
  [tool_name |-> "get_cluster_info",
     accesses |-> <<>>,
     method |-> "get_cluster_info",
     wrap |-> "result"],
  [tool_name |-> "create_pod",
     accesses |-> <<[op |-> "subscript", key |-> "name", default |-> None],
                   [op |-> "subscript", key |-> "image", default |-> None],
                   [op |-> "get", key |-> "namespace", default |-> "default"],
                   [op |-> "get", key |-> "port", default |-> None],
                   [op |-> "get", key |-> "env_vars", default |-> None],
                   [op |-> "get", key |-> "labels", default |-> None]>>,
     method |-> "create_pod",
     wrap |-> "result"],
  [tool_name |-> "create_deployment",
     accesses |-> <<[op |-> "subscript", key |-> "name", default |-> None],
                   [op |-> "subscript", key |-> "image", default |-> None],
                   [op |-> "get", key |-> "replicas", default |-> "1"],
                   [op |-> "get", key |-> "namespace", default |-> "default"],
                   [op |-> "get", key |-> "port", default |-> None],
                   [op |-> "get", key |-> "env_vars", default |-> None],
                   [op |-> "get", key |-> "labels", default |-> None]>>,
     method |-> "create_deployment",
     wrap |-> "result"],
  [tool_name |-> "create_service",
     accesses |-> <<[op |-> "subscript", key |-> "name", default |-> None],
                   [op |-> "subscript", key |-> "port", default |-> None],
                   [op |-> "subscript", key |-> "target_port", default |-> None],
                   [op |-> "get", key |-> "namespace", default |-> "default"],
                   [op |-> "get", key |-> "service_type", default |-> "ClusterIP"],
                   [op |-> "get", key |-> "selector", default |-> None]>>,
     method |-> "create_service",
     wrap |-> "result"],
  [tool_name |-> "create_configmap",
     accesses |-> <<[op |-> "subscript", key |-> "name", default |-> None],
                   [op |-> "subscript", key |-> "data", default |-> None],
                   [op |-> "get", key |-> "namespace", default |-> "default"],
                   [op |-> "get", key |-> "labels", default |-> None]>>,
     method |-> "create_configmap",
     wrap |-> "result"],
  [tool_name |-> "create_secret",
     accesses |-> <<[op |-> "subscript", key |-> "name", default |-> None],
                   [op |-> "subscript", key |-> "data", default |-> None],
                   [op |-> "get", key |-> "namespace", default |-> "default"],
                   [op |-> "get", key |-> "secret_type", default |-> "Opaque"],
                   [op |-> "get", key |-> "labels", default |-> None]>>,
     method |-> "create_secret",
     wrap |-> "result"],
  [tool_name |-> "list_configmaps",
     accesses |-> <<[op |-> "get", key |-> "namespace", default |-> "default"]>>,
     method |-> "get_configmaps",
     wrap |-> "result"],
  [tool_name |-> "list_secrets",
     accesses |-> <<[op |-> "get", key |-> "namespace", default |-> "default"]>>,
     method |-> "get_secrets",
     wrap |-> "result"],
  [tool_name |-> "update_pod_image",
     accesses |-> <<[op |-> "subscript", key |-> "name", default |-> None],
                   [op |-> "subscript", key |-> "container_name", default |-> None],
                   [op |-> "subscript", key |-> "new_image", default |-> None],
                   [op |-> "get", key |-> "namespace", default |-> "default"]>>,
     method |-> "update_pod_image",
     wrap |-> "result"],
  [tool_name |-> "update_deployment_image",
     accesses |-> <<[op |-> "subscript", key |-> "name", default |-> None],
                   [op |-> "subscript", key |-> "container_name", default |-> None],
                   [op |-> "subscript", key |-> "new_image", default |-> None],
                   [op |-> "get", key |-> "namespace", default |-> "default"]>>,
     method |-> "update_deployment_image",
     wrap |-> "result"],
  [tool_name |-> "update_configmap",
     accesses |-> <<[op |-> "subscript", key |-> "name", default |-> None],
                   [op |-> "subscript", key |-> "data", default |-> None],
                   [op |-> "get", key |-> "namespace", default |-> "default"]>>,
     method |-> "update_configmap",
     wrap |-> "result"],
  [tool_name |-> "delete_deployment",
     accesses |-> <<[op |-> "subscript", key |-> "name", default |-> None],
                   [op |-> "get", key |-> "namespace", default |-> "default"]>>,
     method |-> "delete_deployment",
     wrap |-> "result"],
  [tool_name |-> "delete_service",
     accesses |-> <<[op |-> "subscript", key |-> "name", default |-> None],
                   [op |-> "get", key |-> "namespace", default |-> "default"]>>,
     method |-> "delete_service",
     wrap |-> "result"],
  [tool_name |-> "delete_configmap",
     accesses |-> <<[op |-> "subscript", key |-> "name", default |-> None],
                   [op |-> "get", key |-> "namespace", default |-> "default"]>>,
     method |-> "delete_configmap",
     wrap |-> "result"],
  [tool_name |-> "delete_secret",
     accesses |-> <<[op |-> "subscript", key |-> "name", default |-> None],
                   [op |-> "get", key |-> "namespace", default |-> "default"]>>,
     method |-> "delete_secret",
     wrap |-> "result"]
  >>

-----------------------------------------------------------------------------
(* K8sClient: every method the executor calls wraps the cluster call in    *)
(* try/except ApiException and re-raises Exception("<prefix>: <e>").       *)

K8sClientMethods ==
  <<
  [method |-> "get_pods", error_prefix |-> "Error getting pods"],
  [method |-> "get_deployments", error_prefix |-> "Error getting deployments"],
  [method |-> "get_services", error_prefix |-> "Error getting services"],
  [method |-> "get_namespaces", error_prefix |-> "Error getting namespaces"],
  [method |-> "scale_deployment", error_prefix |-> "Error scaling deployment"],
  [method |-> "delete_pod", error_prefix |-> "Error deleting pod"],
  [method |-> "get_pod_logs", error_prefix |-> "Error getting pod logs"],
  [method |-> "create_namespace", error_prefix |-> "Error creating namespace"],
  [method |-> "delete_namespace", error_prefix |-> "Error deleting namespace"],
  [method |-> "get_cluster_info", error_prefix |-> "Error getting cluster info"],
  [method |-> "create_pod", error_prefix |-> "Error creating pod"],
  [method |-> "create_deployment", error_prefix |-> "Error creating deployment"],
  [method |-> "create_service", error_prefix |-> "Error creating service"],
  [method |-> "create_configmap", error_prefix |-> "Error creating configmap"],
  [method |-> "create_secret", error_prefix |-> "Error creating secret"],
  [method |-> "get_configmaps", error_prefix |-> "Error getting configmaps"],
  [method |-> "get_secrets", error_prefix |-> "Error getting secrets"],
  [method |-> "update_pod_image", error_prefix |-> "Error updating pod"],
  [method |-> "update_deployment_image", error_prefix |-> "Error updating deployment"],
  [method |-> "update_configmap", error_prefix |-> "Error updating configmap"],
  [method |-> "delete_deployment", error_prefix |-> "Error deleting deployment"],
  [method |-> "delete_service", error_prefix |-> "Error deleting service"],
  [method |-> "delete_configmap", error_prefix |-> "Error deleting configmap"],
  [method |-> "delete_secret", error_prefix |-> "Error deleting secret"]
  >>

K8sClientMethod(method) ==
  K8sClientMethods[CHOOSE i \in DOMAIN K8sClientMethods :
                     K8sClientMethods[i].method = method]

\* What the cluster does with one client call: it serves it, rejects it with
\* an ApiException, or cannot be reached (any exception other than
\* ApiException).
ClusterOutcomes == {"ok", "ApiException", "ConnectionError"}

ApiExceptionText == "(404) Reason: Not Found"

ConnectionErrorText == "Connection refused"

\* One K8sClient method call.  A served call returns the summary the method
\* builds, kept here as the method and the arguments it was built from; an
\* ApiException is re-raised as Exception("<prefix>: <e>"); any other
\* exception passes through the method's except clause untouched.
K8sClientCall(method, args, outcome) ==
  CASE outcome = "ok" -> Return([method |-> method, args |-> args])
    [] outcome = "ApiException" ->
         Raise("Exception",
               K8sClientMethod(method).error_prefix \o ": " \o ApiExceptionText)
    [] OTHER -> Raise("ConnectionError", ConnectionErrorText)

-----------------------------------------------------------------------------
(* K8sTools.execute_tool *)

CatalogNames == {get_tool_definitions[i].name : i \in DOMAIN get_tool_definitions}

ToolDefinition(name) ==
  get_tool_definitions[CHOOSE i \in DOMAIN get_tool_definitions :
                         get_tool_definitions[i].name = name]

\* One parameter read of a branch: parameters["k"] raises KeyError when the
\* key is absent (TypeError when parameters is no dict), parameters.get("k",
\* d) yields d (AttributeError when parameters is no dict).
\* (Faulty variant: .get is called without its default.)
AccessDefaultNone(parameters, acc) ==
  IF acc.op = "subscript"
  THEN IF parameters.kind # "dict"
       THEN Raise("TypeError", "list indices must be integers or slices, not str")
       ELSE IF acc.key \notin DictKeys(parameters)
            THEN Raise("KeyError", "'" \o acc.key \o "'")
            ELSE Return(DictValue(parameters, acc.key))
  ELSE IF parameters.kind # "dict"
       THEN Raise("AttributeError", "'list' object has no attribute 'get'")
       ELSE IF acc.key \in DictKeys(parameters)
            THEN Return(DictValue(parameters, acc.key))
            ELSE Return(None)

\* (Faulty variant: every parameter, required ones included, read with .get.)
AccessAllGet(parameters, acc) ==
  IF parameters.kind # "dict"
  THEN Raise("AttributeError", "'list' object has no attribute 'get'")
  ELSE IF acc.key \in DictKeys(parameters)
       THEN Return(DictValue(parameters, acc.key))
       ELSE Return(acc.default)

Access(parameters, acc) ==
  IF acc.op = "subscript"
  THEN IF parameters.kind # "dict"
       THEN Raise("TypeError", "list indices must be integers or slices, not str")
       ELSE IF acc.key \notin DictKeys(parameters)
            THEN Raise("KeyError", "'" \o acc.key \o "'")
            ELSE Return(DictValue(parameters, acc.key))
  ELSE IF parameters.kind # "dict"
       THEN Raise("AttributeError", "'list' object has no attribute 'get'")
       ELSE IF acc.key \in DictKeys(parameters)
            THEN Return(DictValue(parameters, acc.key))
            ELSE Return(acc.default)

\* The reads of a branch in statement order; the first one that raises ends
\* the branch.
RECURSIVE ReadParameters(_, _)
ReadParameters(parameters, accesses) ==
  IF Len(accesses) = 0
  THEN Return(<<>>)
  ELSE LET first == Access(parameters, Head(accesses))
       IN  IF first.kind = "raise"
           THEN first
           ELSE LET rest == ReadParameters(parameters, Tail(accesses))
                IN  IF rest.kind = "raise"
                    THEN rest
                    ELSE Return(<<first.value>> \o rest.value)

\* The body of one branch: read the parameters, call the client method, wrap
\* the result.  calls is the sequence of client calls the branch made.
\* (Faulty variant: a client call that raises is made a second time.)
ExecuteBranchRetry(branch, parameters, outcome) ==
  LET read == ReadParameters(parameters, branch.accesses)
      call == [method |-> branch.method, args |-> read.value]
  IN  IF read.kind = "raise"
      THEN [res |-> read, calls |-> <<>>]
      ELSE LET result == K8sClientCall(branch.method, read.value, outcome)
           IN  IF result.kind = "raise"
               THEN [res |-> result, calls |-> <<call, call>>]
               ELSE [res |-> Return([success |-> TRUE,
                                     data |-> IF branch.wrap = "logs"
                                              THEN [logs |-> result.value]
                                              ELSE result.value]),
                     calls |-> <<call>>]

ExecuteBranch(branch, parameters, outcome) ==
  LET read == ReadParameters(parameters, branch.accesses)
  IN  IF read.kind = "raise"
      THEN [res |-> read, calls |-> <<>>]
      ELSE LET result == K8sClientCall(branch.method, read.value, outcome)
           IN  [res |-> IF result.kind = "raise"
                        THEN result
                        ELSE Return([success |-> TRUE,
                                     data |-> IF branch.wrap = "logs"
                                              THEN [logs |-> result.value]
                                              ELSE result.value]),
                calls |-> <<[method |-> branch.method, args |-> read.value]>>]

\* The final else of the chain.
\* (Faulty variant: the error text leaves out the tool name.)
UnknownToolNoName(tool_name) ==
  Return([success |-> FALSE, error |-> "Unknown tool"])

UnknownTool(tool_name) ==
  Return([success |-> FALSE, error |-> "Unknown tool: " \o tool_name])

\* The if/elif chain: the index of the first branch whose comparison with
\* tool_name holds, 0 when none does.
\* (Faulty variant: the list_secrets comparison never holds.)
BranchOfMisspelt(tool_name) ==
  LET hits == {i \in DOMAIN ExecBranches :
                 /\ ExecBranches[i].tool_name = tool_name
                 /\ tool_name # "list_secrets"}
  IN  IF hits = {} THEN 0 ELSE CHOOSE i \in hits : \A j \in hits : i <= j

BranchOf(tool_name) ==
  LET hits == {i \in DOMAIN ExecBranches : ExecBranches[i].tool_name = tool_name}
  IN  IF hits = {} THEN 0 ELSE CHOOSE i \in hits : \A j \in hits : i <= j

ExecuteToolTry(tool_name, parameters, outcome) ==
  LET i == BranchOf(tool_name)
  IN  IF i = 0
      THEN [res |-> UnknownTool(tool_name), calls |-> <<>>]
      ELSE ExecuteBranch(ExecBranches[i], parameters, outcome)

\* except Exception as e: return {"success": False, "error": str(e)}
\* (Faulty variants: a clause that catches KeyError only, and a clause that
\* also puts a data field into the failed envelope.)
ExecuteToolExceptKeyError(res) ==
  IF res.kind = "raise" /\ res.exc.type = "KeyError"
  THEN Return([success |-> FALSE, error |-> res.exc.msg])
  ELSE res

ExecuteToolExceptWithData(res) ==
  IF res.kind = "raise"
  THEN Return([success |-> FALSE, data |-> None, error |-> res.exc.msg])
  ELSE res

ExecuteToolExcept(res) ==
  IF res.kind = "raise"
  THEN Return([success |-> FALSE, error |-> res.exc.msg])
  ELSE res

\* execute_tool(tool_name, parameters) against a cluster that answers the
\* client call, if one is made, with outcome.
execute_tool(tool_name, parameters, outcome) ==
  LET body == ExecuteToolTry(tool_name, parameters, outcome)
  IN  [res |-> ExecuteToolExcept(body.res), calls |-> body.calls]

-----------------------------------------------------------------------------
(* Direct calls of the executor: the inputs are drawn from every tool name *)
(* of the catalog and of the chain plus names in neither, every subset of  *)
(* the tool's schema properties as the key set of the argument map (and an *)
(* argument value that is no dict), and every cluster outcome.             *)

UnknownNames == {"unknown_xyz", "List_Pods", ""}

ToolNames ==
  CatalogNames \cup {ExecBranches[i].tool_name : i \in DOMAIN ExecBranches}
               \cup UnknownNames

ArgValue == "v"

SchemaKeys(tool_name) ==
  IF tool_name \in CatalogNames
  THEN {p[1] : p \in SeqToSet(ToolDefinition(tool_name).properties)}
  ELSE {"name"}

ParameterChoices(tool_name) ==
  {Dict({<<k, ArgValue>> : k \in ks}) : ks \in SUBSET SchemaKeys(tool_name)}
    \cup {NotADict}

ToolInputs ==
  UNION {{[tool_name |-> n, parameters |-> p, outcome |-> o] :
            p \in ParameterChoices(n), o \in ClusterOutcomes} : n \in ToolNames}

NoToolCall == [res |-> NoOutcome, calls |-> <<>>]

IdleToolIn == [tool_name |-> "", parameters |-> Dict({}), outcome |-> "ok"]

ExecuteToolCall ==
  /\ toolOut.res.kind = "none"
  /\ toolOut' = execute_tool(toolIn.tool_name, toolIn.parameters, toolIn.outcome)
  /\ UNCHANGED <<callerVars, toolIn, conversation_history, system_prompt,
                 frame, turns>>

-----------------------------------------------------------------------------
(* K8sAgent: messages and the model backend *)

DEFAULT_SYSTEM_PROMPT == "You are a helpful Kubernetes operations assistant."

SystemMsg(content) == [role |-> "system", content |-> content]

UserMsg(content) == [role |-> "user", content |-> content]

\* (Faulty variant: the message is stored without its text.)
AssistantMsgNoContent(content) == [role |-> "assistant", content |-> None]

AssistantMsg(content) == [role |-> "assistant", content |-> content]

AssistantToolCallsMsg(content, tool_calls) ==
  [role |-> "assistant", content |-> content, tool_calls |-> tool_calls]

ToolMsg(tool_call_id, name, content) ==
  [role |-> "tool", tool_call_id |-> tool_call_id, name |-> name,
   content |-> content]

\* (Faulty variant: text that does not parse is read as an empty dict.)
json_loads_lenient(text) ==
  CASE text = "{}" -> Return(Dict({}))
    [] text = "{\"name\": \"nginx\"}" -> Return(Dict({<<"name", "nginx">>}))
    [] OTHER -> Return(Dict({}))

\* json.loads on the argument texts the model backend sends here.
json_loads(text) ==
  CASE text = "{}" -> Return(Dict({}))
    [] text = "{\"name\": \"nginx\"}" -> Return(Dict({<<"name", "nginx">>}))
    [] text = "{\"name\": \"web\"" ->
         Raise("JSONDecodeError",
               "Expecting ',' delimiter: line 1 column 15 (char 14)")

\* json.dumps of a result envelope: the text, kept as the value it encodes
\* (json.dumps is one-to-one on envelopes).
json_dumps(value) == [json |-> value]

\* The invocations the model backend may request: a call the cluster is
\* asked to serve, a call that lacks a required argument, and a call whose
\* argument text is cut off.
ToolCallSamples ==
  {[name |-> "list_pods", arguments |-> "{}"],
   [name |-> "scale_deployment", arguments |-> "{\"name\": \"nginx\"}"],
   [name |-> "delete_pod", arguments |-> "{\"name\": \"web\""]}

CallIds == <<"call_1", "call_2", "call_3">>

BatchSizes == {1, 2}

\* The tool_calls lists of a model response: each call has its own id.
Batches ==
  UNION {{[k \in 1..n |-> [id |-> CallIds[k], function |-> f[k]]] :
            f \in [1..n -> ToolCallSamples]} : n \in BatchSizes}

\* What the cluster does with the client call of an invocation run from chat.
ChatClusterOutcomes == {"ok", "ApiException"}

ModelErrorText == "Connection error."

ModelReplyText == "Here is what I found."

UserMessages == <<"list pods", "scale nginx", "show logs", "delete web">>

Prompts == {"Answer in one line."}

MaxTurns == 2

NoResponse == [content |-> None, tool_calls |-> <<>>]

NoExc == [type |-> "", msg |-> ""]

\* A thread that is not inside chat.  ret is the outcome of its last chat
\* call; executed and model_calls list the execute_tool and the model calls
\* of that call.
IdleFrame(agent) ==
  [agent |-> agent, pc |-> "idle", messages |-> <<>>, response |-> NoResponse,
   i |-> 0, exc |-> NoExc, final_message |-> None, ret |-> NoOutcome,
   executed |-> <<>>, model_calls |-> <<>>]

\* messages = [{"role": "system", ...}] + self.conversation_history
\* (Faulty variant: the system message is left out.)
BuildMessagesNoSystem(prompt, history) == history

BuildMessages(prompt, history) == <<SystemMsg(prompt)>> \o history

AdvertisedTools ==
  [i \in DOMAIN get_tool_definitions |-> get_tool_definitions[i].name]

-----------------------------------------------------------------------------
(* K8sAgent.chat, one step per statement group; thread t runs it on agent  *)
(* frame[t].agent.                                                         *)

ModelOutcomes1 ==
  {Raise("APIConnectionError", ModelErrorText),
   Return([content |-> ModelReplyText, tool_calls |-> <<>>])}
    \cup {Return([content |-> None, tool_calls |-> b]) : b \in Batches}

ModelOutcomes2 ==
  {Raise("APIConnectionError", ModelErrorText),
   Return([content |-> ModelReplyText, tool_calls |-> <<>>])}

\* except Exception as e
\* (Faulty variant: a clause that catches the model backend's errors only.)
ChatCatchesConnectionOnly(exc) == exc.type = "APIConnectionError"

ChatCatches(exc) == TRUE

\* (Faulty variant: the error's own message is dropped.)
ErrorMessageNoDetail(exc) == "Error processing request"

\* error_message = f"Error processing request: {str(e)}"
ErrorMessage(exc) == "Error processing request: " \o exc.msg

\* self.conversation_history.append({"role": "assistant", "content": error_message})
\* (Faulty variant: the last message is replaced by the error message.)
HistoryAfterErrorRollback(history, error_message) ==
  Append(SubSeq(history, 1, Len(history) - 1), AssistantMsg(error_message))

\* (Faulty variant: the tool messages at the end are taken back first.)
RECURSIVE HistoryAfterErrorDropsTools(_, _)
HistoryAfterErrorDropsTools(history, error_message) ==
  IF history # <<>> /\ history[Len(history)].role = "tool"
  THEN HistoryAfterErrorDropsTools(SubSeq(history, 1, Len(history) - 1),
                                   error_message)
  ELSE Append(history, AssistantMsg(error_message))

\* (Faulty variant: the error text is returned but not recorded.)
HistoryAfterErrorUnrecorded(history, error_message) == history

HistoryAfterError(history, error_message) ==
  Append(history, AssistantMsg(error_message))

\* self.conversation_history = []
\* (Faulty variant: the first message survives the reset.)
ResetHistoryKeepsFirst(history) ==
  IF Len(history) = 0 THEN <<>> ELSE <<history[1]>>

ResetHistory(history) == <<>>

\* Lines 89-92: the user message is appended and messages is built.
ChatBegin(t) ==
  LET a == frame[t].agent
      history == Append(conversation_history[a], UserMsg(UserMessages[turns + 1]))
  IN  /\ frame[t].pc = "idle"
      /\ turns < MaxTurns
      /\ conversation_history' = [conversation_history EXCEPT ![a] = history]
      /\ frame' = [frame EXCEPT ![t] =
                     [IdleFrame(a) EXCEPT
                        !.pc = "model1",
                        !.messages = BuildMessages(system_prompt[a], history)]]
      /\ turns' = turns + 1
      /\ UNCHANGED <<callerVars, toolIn, toolOut, system_prompt>>

\* chat called on an agent whose history is empty: a new agent, or one
\* after reset_conversation.
ChatOnEmptyHistory(t) ==
  /\ conversation_history[frame[t].agent] = <<>>
  /\ ChatBegin(t)

\* Lines 96-112: the first model call, with the catalog as tools.
ModelQuery1(t) ==
  /\ frame[t].pc = "model1"
  /\ \E out \in ModelOutcomes1 :
       frame' = [frame EXCEPT ![t] =
                   [@ EXCEPT
                      !.model_calls = Append(@, [messages |-> frame[t].messages,
                                                 tools |-> AdvertisedTools]),
                      !.pc = IF out.kind = "raise" THEN "except" ELSE "respond",
                      !.exc = IF out.kind = "raise" THEN out.exc ELSE @,
                      !.response = IF out.kind = "raise" THEN @ ELSE out.value]]
  /\ UNCHANGED <<callerVars, toolIn, toolOut, conversation_history,
                 system_prompt, turns>>

\* Lines 115-121 and 152-156: the branch on response_message.tool_calls.
HandleResponse(t) ==
  LET a == frame[t].agent
      response_message == frame[t].response
  IN  /\ frame[t].pc = "respond"
      /\ IF Len(response_message.tool_calls) > 0
         THEN /\ conversation_history' =
                   [conversation_history EXCEPT ![a] =
                      Append(@, AssistantToolCallsMsg(response_message.content,
                                                      response_message.tool_calls))]
              /\ frame' = [frame EXCEPT ![t] = [@ EXCEPT !.pc = "loop", !.i = 1]]
         ELSE /\ conversation_history' =
                   [conversation_history EXCEPT ![a] =
                      Append(@, AssistantMsg(response_message.content))]
              /\ frame' = [frame EXCEPT ![t] =
                             [@ EXCEPT !.pc = "idle",
                                       !.ret = Return(response_message.content)]]
      /\ UNCHANGED <<callerVars, toolIn, toolOut, system_prompt, turns>>

\* Lines 124-137: one iteration of the loop over response_message.tool_calls.
ExecuteNextToolCall(t) ==
  LET a == frame[t].agent
      tool_calls == frame[t].response.tool_calls
      tool_call == tool_calls[frame[t].i]
      function_name == tool_call.function.name
      function_args == json_loads(tool_call.function.arguments)
  IN  /\ frame[t].pc = "loop"
      /\ IF function_args.kind = "raise"
         THEN /\ frame' = [frame EXCEPT ![t] =
                             [@ EXCEPT !.pc = "except", !.exc = function_args.exc]]
              /\ UNCHANGED conversation_history
         ELSE \E outcome \in ChatClusterOutcomes :
                LET function_result ==
                      execute_tool(function_name, function_args.value, outcome)
                    done == [id |-> tool_call.id, name |-> function_name,
                             calls |-> function_result.calls]
                IN  IF function_result.res.kind = "raise"
                    THEN /\ frame' = [frame EXCEPT ![t] =
                                        [@ EXCEPT !.pc = "except",
                                                  !.exc = function_result.res.exc,
                                                  !.executed = Append(@, done)]]
                         /\ UNCHANGED conversation_history
                    ELSE /\ conversation_history' =
                              [conversation_history EXCEPT ![a] =
                                 Append(@, ToolMsg(tool_call.id, function_name,
                                                  json_dumps(function_result.res.value)))]
                         /\ frame' = [frame EXCEPT ![t] =
                                        [@ EXCEPT
                                           !.executed = Append(@, done),
                                           !.i = @ + 1,
                                           !.pc = IF frame[t].i = Len(tool_calls)
                                                  THEN "model2" ELSE "loop"]]
      /\ UNCHANGED <<callerVars, toolIn, toolOut, system_prompt, turns>>

\* Lines 140-147: messages is rebuilt and the second model call is made,
\* without tools.
ModelQuery2(t) ==
  LET a == frame[t].agent
      messages == BuildMessages(system_prompt[a], conversation_history[a])
  IN  /\ frame[t].pc = "model2"
      /\ \E out \in ModelOutcomes2 :
           frame' = [frame EXCEPT ![t] =
                       [@ EXCEPT
                          !.messages = messages,
                          !.model_calls = Append(@, [messages |-> messages,
                                                     tools |-> <<>>]),
                          !.pc = IF out.kind = "raise" THEN "except" ELSE "final",
                          !.exc = IF out.kind = "raise" THEN out.exc ELSE @,
                          !.final_message =
                             IF out.kind = "raise" THEN @ ELSE out.value.content]]
      /\ UNCHANGED <<callerVars, toolIn, toolOut, conversation_history,
                     system_prompt, turns>>

\* Lines 148-150: the final reply is appended and returned.
AppendFinal(t) ==
  LET a == frame[t].agent
  IN  /\ frame[t].pc = "final"
      /\ conversation_history' =
           [conversation_history EXCEPT ![a] =
              Append(@, AssistantMsg(frame[t].final_message))]
      /\ frame' = [frame EXCEPT ![t] =
                     [@ EXCEPT !.pc = "idle",
                               !.ret = Return(frame[t].final_message)]]
      /\ UNCHANGED <<callerVars, toolIn, toolOut, system_prompt, turns>>

\* Lines 158-161: the except clause of chat.  An exception the clause does
\* not catch leaves chat as a raise.
HandleException(t) ==
  LET a == frame[t].agent
      e == frame[t].exc
  IN  /\ frame[t].pc = "except"
      /\ IF ChatCatches(e)
         THEN /\ conversation_history' =
                   [conversation_history EXCEPT ![a] =
                      HistoryAfterError(@, ErrorMessage(e))]
              /\ frame' = [frame EXCEPT ![t] =
                             [@ EXCEPT !.pc = "idle",
                                       !.ret = Return(ErrorMessage(e))]]
         ELSE /\ UNCHANGED conversation_history
              /\ frame' = [frame EXCEPT ![t] =
                             [@ EXCEPT !.pc = "idle", !.ret = Raise(e.type, e.msg)]]
      /\ UNCHANGED <<callerVars, toolIn, toolOut, system_prompt, turns>>

\* (Faulty variant: the history is one list that all instances share.)
reset_conversation_shared(t) ==
  /\ frame[t].pc = "idle"
  /\ conversation_history' =
       [a \in DOMAIN conversation_history |-> ResetHistory(conversation_history[a])]
  /\ UNCHANGED <<callerVars, toolIn, toolOut, system_prompt, frame, turns>>

\* K8sAgent.reset_conversation, called by a thread that is not inside chat.
reset_conversation(t) ==
  LET a == frame[t].agent
  IN  /\ frame[t].pc = "idle"
      /\ conversation_history' =
           [conversation_history EXCEPT ![a] = ResetHistory(@)]
      /\ UNCHANGED <<callerVars, toolIn, toolOut, system_prompt, frame, turns>>

\* K8sAgent.get_conversation_history: a copy of the list.
get_conversation_history(a) == conversation_history[a]

\* (Faulty variant: the new prompt is also stored as a history entry.)
set_system_prompt_in_history(t) ==
  LET a == frame[t].agent
  IN  /\ frame[t].pc = "idle"
      /\ \E prompt \in Prompts :
           /\ system_prompt' = [system_prompt EXCEPT ![a] = prompt]
           /\ conversation_history' =
                [conversation_history EXCEPT ![a] = Append(@, SystemMsg(prompt))]
      /\ UNCHANGED <<callerVars, toolIn, toolOut, frame, turns>>

\* K8sAgent.set_system_prompt
set_system_prompt(t) ==
  LET a == frame[t].agent
  IN  /\ frame[t].pc = "idle"
      /\ \E prompt \in Prompts :
           system_prompt' = [system_prompt EXCEPT ![a] = prompt]
      /\ UNCHANGED <<callerVars, toolIn, toolOut, conversation_history,
                     frame, turns>>

-----------------------------------------------------------------------------
(* A caller of get_conversation_history and what it does with the list.    *)
(* The list is a new list of the same message objects: an entry of the     *)
(* caller's list is either the message object at a position of the live    *)
(* history (ref) or an object of the caller's own (ref = 0, msg).  Live     *)
(* positions are stable as long as the history is not reset.               *)

\* self.conversation_history.copy(): a new list of the same objects.
ListCopy(history) == [i \in DOMAIN history |-> [ref |-> i, msg |-> None]]

CallerText == "edited by the caller"

CallerMsg == [role |-> "user", content |-> CallerText]

\* history = agent.get_conversation_history()
GetHistory(t) ==
  LET a == frame[t].agent
  IN  /\ frame[t].pc = "idle"
      /\ snapshot = <<>>
      /\ conversation_history[a] # <<>>
      /\ snapshot' = ListCopy(conversation_history[a])
      /\ UNCHANGED <<toolIn, toolOut, conversation_history, system_prompt, frame,
                     turns, clientIn, clientOut, environ, configIn, configOut>>

\* history.append(...)
CallerAppend(t) ==
  /\ frame[t].pc = "idle"
  /\ snapshot # <<>>
  /\ \A i \in DOMAIN snapshot : snapshot[i].ref # 0
  /\ snapshot' = Append(snapshot, [ref |-> 0, msg |-> CallerMsg])
  /\ UNCHANGED <<toolIn, toolOut, conversation_history, system_prompt, frame,
                 turns, clientIn, clientOut, environ, configIn, configOut>>

\* history.pop()
CallerRemove(t) ==
  /\ frame[t].pc = "idle"
  /\ Len(snapshot) > 1
  /\ snapshot' = SubSeq(snapshot, 1, Len(snapshot) - 1)
  /\ UNCHANGED <<toolIn, toolOut, conversation_history, system_prompt, frame,
                 turns, clientIn, clientOut, environ, configIn, configOut>>

\* history[0]["content"] = ...: the assignment goes to the object the entry
\* refers to.
CallerSetField(t) ==
  LET a == frame[t].agent
      entry == snapshot[1]
  IN  /\ frame[t].pc = "idle"
      /\ snapshot # <<>>
      /\ IF entry.ref = 0
         THEN /\ snapshot' = [snapshot EXCEPT ![1].msg.content = CallerText]
              /\ UNCHANGED conversation_history
         ELSE /\ conversation_history' =
                   [conversation_history EXCEPT ![a][entry.ref].content = CallerText]
              /\ UNCHANGED snapshot
      /\ UNCHANGED <<toolIn, toolOut, system_prompt, frame, turns, clientIn,
                     clientOut, environ, configIn, configOut>>

-----------------------------------------------------------------------------
(* K8sClient methods, called directly (example_usage.py client_example).   *)
(* A creation timestamp is a record: is_none is TRUE for None, and         *)
(* seconds_ago is now - creation_timestamp in whole seconds.               *)

NoTimestamp == [is_none |-> TRUE, seconds_ago |-> 0]

Timestamp(seconds_ago) == [is_none |-> FALSE, seconds_ago |-> seconds_ago]

\* timedelta.days and timedelta.seconds of a non-negative age.
TimedeltaDays(seconds_ago) == seconds_ago \div (24 * 3600)

TimedeltaSeconds(seconds_ago) == seconds_ago % (24 * 3600)

\* K8sClient._calculate_age
_calculate_age(creation_timestamp) ==
  IF creation_timestamp.is_none
  THEN "Unknown"
  ELSE LET days == TimedeltaDays(creation_timestamp.seconds_ago)
           seconds == TimedeltaSeconds(creation_timestamp.seconds_ago)
       IN  IF days > 0 THEN ToString(days) \o "d"
           ELSE IF seconds > 3600 THEN ToString(seconds \div 3600) \o "h"
           ELSE IF seconds > 60 THEN ToString(seconds \div 60) \o "m"
           ELSE ToString(seconds) \o "s"

\* ready = True; for container in ...: if not container.ready: ready = False
\* (Faulty variant: each container overwrites ready, so the last one wins.)
PodReadyLastWins(container_statuses) ==
  \/ container_statuses = <<>>
  \/ container_statuses[Len(container_statuses)].ready

PodReady(container_statuses) ==
  \A k \in DOMAIN container_statuses : container_statuses[k].ready

\* restarts = 0; for container in ...: restarts += container.restart_count
RECURSIVE PodRestarts(_)
PodRestarts(container_statuses) ==
  IF container_statuses = <<>>
  THEN 0
  ELSE container_statuses[1].restart_count + PodRestarts(Tail(container_statuses))

\* The dict get_pods appends for one pod.  container_statuses is <<>> for
\* None and for the empty list, which the code treats alike.
PodSummary(pod) ==
  [name |-> pod.name, namespace |-> pod.namespace, phase |-> pod.phase,
   ready |-> PodReady(pod.container_statuses),
   restarts |-> PodRestarts(pod.container_statuses),
   age |-> _calculate_age(pod.creation_timestamp),
   node |-> pod.node_name, ip |-> pod.pod_ip]

\* except ApiException as e: raise Exception(f"Error ...: {e}")
ClientRaise(method) ==
  Raise("Exception", K8sClientMethod(method).error_prefix \o ": " \o ApiExceptionText)

\* K8sClient.get_pods on the pods the cluster lists.
get_pods(namespace, label_selector, items, outcome) ==
  [res |-> IF outcome = "ok"
           THEN Return([i \in DOMAIN items |-> PodSummary(items[i])])
           ELSE ClientRaise("get_pods"),
   requests |-> <<[api |-> "list_namespaced_pod", namespace |-> namespace,
                   label_selector |-> label_selector]>>]

\* A secret's data is a sequence of <<key, value>> pairs in dict order, <<>>
\* for None and for the empty dict, which `secret.data or {}` treats alike.

\* list(data.keys())
DataKeys(data) == [k \in DOMAIN data |-> data[k][1]]

\* The dict get_secrets appends for one secret.
\* (Faulty variant: the summary carries the data itself.)
SecretSummaryWithData(secret) ==
  [name |-> secret.name, namespace |-> secret.namespace, type |-> secret.type,
   data_count |-> Len(secret.data),
   data_keys |-> secret.data,
   age |-> _calculate_age(secret.creation_timestamp)]

SecretSummary(secret) ==
  [name |-> secret.name, namespace |-> secret.namespace, type |-> secret.type,
   data_count |-> Len(secret.data),
   data_keys |-> DataKeys(secret.data),
   age |-> _calculate_age(secret.creation_timestamp)]

\* K8sClient.get_secrets on the secrets the cluster lists.
get_secrets(namespace, items, outcome) ==
  [res |-> IF outcome = "ok"
           THEN Return([i \in DOMAIN items |-> SecretSummary(items[i])])
           ELSE ClientRaise("get_secrets"),
   requests |-> <<[api |-> "list_namespaced_secret", namespace |-> namespace]>>]

\* base64.b64encode(v.encode()).decode() on the values used here.
b64encode(v) ==
  CASE v = "s3cr3t" -> "czNjcjN0"
    [] v = "hunter2" -> "aHVudGVyMg=="

\* K8sClient.create_secret
create_secret(name, data, namespace, secret_type, outcome) ==
  LET encoded_data == [k \in DOMAIN data |-> <<data[k][1], b64encode(data[k][2])>>]
      secret == [name |-> name, namespace |-> namespace, type |-> secret_type,
                 data |-> encoded_data]
  IN  [res |-> IF outcome = "ok"
               THEN Return([name |-> name, namespace |-> namespace,
                            type |-> secret_type, data_keys |-> DataKeys(data),
                            message |-> "Secret " \o name \o " created successfully"])
               ELSE ClientRaise("create_secret"),
       requests |-> <<[api |-> "create_namespaced_secret",
                       namespace |-> namespace, body |-> secret]>>]

\* for container in ...containers: if container.name == container_name:
\* the position of the first container of that name, 0 when the loop ends
\* without a break.
FirstNamed(containers, container_name) ==
  LET hits == {j \in DOMAIN containers : containers[j].name = container_name}
  IN  IF hits = {} THEN 0 ELSE CHOOSE j \in hits : \A k \in hits : j <= k

\* container.image = new_image
\* (Faulty variant: the image of every container is replaced.)
ReplaceImageAll(containers, j, new_image) ==
  [k \in DOMAIN containers |-> [containers[k] EXCEPT !.image = new_image]]

ReplaceImage(containers, j, new_image) ==
  [containers EXCEPT ![j].image = new_image]

\* The common shape of update_pod_image and update_deployment_image: read
\* the resource, change the image of the named container, patch.  The
\* exception of the for/else is no ApiException and leaves the method as
\* raised.  outcome says which of the two requests the cluster refuses.
UpdateImage(method, kind, name, container_name, new_image, namespace, containers, outcome) ==
  LET read_api == "read_namespaced_" \o kind
      patch_api == "patch_namespaced_" \o kind
      read == [api |-> read_api, name |-> name, namespace |-> namespace]
      j == FirstNamed(containers, container_name)
      body == [name |-> name, containers |-> ReplaceImage(containers, j, new_image)]
      patch == [api |-> patch_api, name |-> name, namespace |-> namespace,
                body |-> body]
  IN  IF outcome = "ApiException"
      THEN [res |-> ClientRaise(method), requests |-> <<read>>]
      ELSE IF j = 0
      THEN [res |-> Raise("Exception",
                          "Container " \o container_name \o " not found in "
                            \o kind \o " " \o name),
            requests |-> <<read>>]
      ELSE IF outcome = "ApiExceptionOnPatch"
      THEN [res |-> ClientRaise(method), requests |-> <<read, patch>>]
      ELSE [res |-> Return([name |-> name, namespace |-> namespace,
                            container |-> container_name, new_image |-> new_image,
                            message |-> (IF kind = "pod" THEN "Pod " ELSE "Deployment ")
                                          \o name \o " container " \o container_name
                                          \o " updated to " \o new_image]),
            requests |-> <<read, patch>>]

\* K8sClient.update_pod_image
update_pod_image(name, container_name, new_image, namespace, containers, outcome) ==
  UpdateImage("update_pod_image", "pod", name, container_name, new_image,
              namespace, containers, outcome)

\* K8sClient.update_deployment_image
update_deployment_image(name, container_name, new_image, namespace, containers, outcome) ==
  UpdateImage("update_deployment_image", "deployment", name, container_name,
              new_image, namespace, containers, outcome)

\* Direct calls: their inputs.

MaxPods == 2

MaxContainers == 2

MaxSecrets == 2

SeqsUpTo(S, n) == UNION {[1..k -> S] : k \in 0..n}

\* Ages around the unit boundaries: whole days, hours, minutes and seconds.
AgeSamples ==
  {d * 24 * 3600 + h * 3600 + m * 60 + sec :
     d \in 0..2, h \in {0, 1, 2, 23}, m \in {0, 1, 30, 59}, sec \in {0, 1, 59}}

Timestamps == {Timestamp(n) : n \in AgeSamples} \cup {NoTimestamp}

\* A container that never restarted, one that restarted and is not ready,
\* and one that is ready again after two restarts.
ContainerStatuses ==
  {[ready |-> TRUE, restart_count |-> 0],
   [ready |-> FALSE, restart_count |-> 1],
   [ready |-> TRUE, restart_count |-> 2]}

PodNames == <<"web-0", "web-1", "web-2", "web-3">>

\* The pod lists the cluster may answer with: pod i has its own name.
PodLists ==
  {[i \in DOMAIN cs |->
      [name |-> PodNames[i], namespace |-> "default", phase |-> "Running",
       container_statuses |-> cs[i], creation_timestamp |-> Timestamp(5400),
       node_name |-> "node-1", pod_ip |-> "10.0.0.7"]] :
     cs \in SeqsUpTo(SeqsUpTo(ContainerStatuses, MaxContainers), MaxPods)}

SecretValues == {"s3cr3t", "hunter2"}

SecretKeys == <<"username", "password">>

\* Secret data: the first keys of SecretKeys, each with one of the values.
SecretDatas ==
  UNION {{[k \in 1..n |-> <<SecretKeys[k], v[k]>>] : v \in [1..n -> SecretValues]} :
           n \in 0..Len(SecretKeys)}

SecretNames == <<"db", "tls", "api", "registry">>

SecretLists ==
  {[i \in DOMAIN ds |->
      [name |-> SecretNames[i], namespace |-> "default", type |-> "Opaque",
       data |-> ds[i], creation_timestamp |-> Timestamp(5400)]] :
     ds \in SeqsUpTo(SecretDatas, MaxSecrets)}

ContainerNames == <<"app", "sidecar", "proxy", "init">>

\* The containers of the resource an update call reads: container j has
\* its own name and image.
ContainerLists ==
  {[j \in 1..n |-> [name |-> ContainerNames[j],
                    image |-> ContainerNames[j] \o ":1.0"]] :
     n \in 0..MaxContainers}

NewImage == "nginx:2.0"

\* The container_name argument: a name the resource may hold and one it
\* never holds.
ContainerNameArgs == {"app", "sidecar", "absent"}

UpdateOutcomes == {"ok", "ApiException", "ApiExceptionOnPatch"}

\* The arguments of a direct call and what the cluster holds and does: the
\* fields a method does not use are left empty.
ClientCallIn(method, creation_timestamp, items, data, container_name, outcome) ==
  [method |-> method, creation_timestamp |-> creation_timestamp,
   items |-> items, data |-> data, container_name |-> container_name,
   outcome |-> outcome]

IdleClientIn == ClientCallIn("", NoTimestamp, <<>>, <<>>, "", "ok")

NoClientCall == [res |-> NoOutcome, requests |-> <<>>]

ClientInputs ==
  {ClientCallIn("_calculate_age", ts, <<>>, <<>>, "", "ok") : ts \in Timestamps}
    \cup {ClientCallIn("get_pods", NoTimestamp, items, <<>>, "", "ok") :
            items \in PodLists}
    \cup {ClientCallIn("get_secrets", NoTimestamp, items, <<>>, "", "ok") :
            items \in SecretLists}
    \cup {ClientCallIn(method, NoTimestamp, <<>>, <<>>, "", "ApiException") :
            method \in {"get_pods", "get_secrets"}}
    \cup {ClientCallIn("create_secret", NoTimestamp, <<>>, data, "", outcome) :
            data \in SecretDatas, outcome \in {"ok", "ApiException"}}
    \cup {ClientCallIn(method, NoTimestamp, items, <<>>, container_name, outcome) :
            method \in {"update_pod_image", "update_deployment_image"},
            items \in ContainerLists, container_name \in ContainerNameArgs,
            outcome \in UpdateOutcomes}

\* One direct call of a K8sClient method on clientIn.
ClientCall ==
  /\ clientOut.res.kind = "none"
  /\ clientIn.method # ""
  /\ clientOut' =
       CASE clientIn.method = "_calculate_age" ->
              [res |-> Return(_calculate_age(clientIn.creation_timestamp)),
               requests |-> <<>>]
         [] clientIn.method = "get_pods" ->
              get_pods("default", None, clientIn.items, clientIn.outcome)
         [] clientIn.method = "get_secrets" ->
              get_secrets("default", clientIn.items, clientIn.outcome)
         [] clientIn.method = "create_secret" ->
              create_secret("db", clientIn.data, "default", "Opaque",
                            clientIn.outcome)
         [] clientIn.method = "update_pod_image" ->
              update_pod_image("web-0", clientIn.container_name, NewImage, "default",
                               clientIn.items, clientIn.outcome)
         [] clientIn.method = "update_deployment_image" ->
              update_deployment_image("web", clientIn.container_name, NewImage,
                                      "default", clientIn.items, clientIn.outcome)
  /\ UNCHANGED <<toolIn, toolOut, conversation_history, system_prompt, frame,
                 turns, snapshot, clientIn, environ, configIn,
                 configOut>>

-----------------------------------------------------------------------------
(* Configuration: the process environment, the .env file, the system       *)
(* prompt file, and what the constructors of K8sAgent and K8sClient        *)
(* resolve from them.  os.environ is a function from the names that are    *)
(* set to their values.  The text of a file is a sequence of tokens: a     *)
(* token is a word, or one of the characters and marks the code looks for. *)
(* A file is a record: exists for os.path.exists, its text, and error_at   *)
(* for what open and read do: 0 when all of it is read, 1 when opening or  *)
(* the first read raises, k when reading raises in place of line k.        *)

getenv(env, key, default) == IF key \in DOMAIN env THEN env[key] ELSE default

Truthy(v) == v # None /\ v # ""

\* a or b
Or(a, b) == IF Truthy(a) THEN a ELSE b

Whitespace == {" ", "\n"}

RECURSIVE Join(_)
Join(tokens) ==
  IF tokens = <<>> THEN "" ELSE Head(tokens) \o Join(Tail(tokens))

\* str.strip(chars): the leading and the trailing characters of chars go.
RECURSIVE LStrip(_, _)
LStrip(tokens, chars) ==
  IF tokens # <<>> /\ Head(tokens) \in chars
  THEN LStrip(Tail(tokens), chars)
  ELSE tokens

RECURSIVE RStrip(_, _)
RStrip(tokens, chars) ==
  IF tokens # <<>> /\ tokens[Len(tokens)] \in chars
  THEN RStrip(SubSeq(tokens, 1, Len(tokens) - 1), chars)
  ELSE tokens

Strip(tokens, chars) == RStrip(LStrip(tokens, chars), chars)

\* The first position from i on that holds token, 0 when there is none.
RECURSIVE Find(_, _, _)
Find(tokens, token, i) ==
  IF i > Len(tokens) THEN 0
  ELSE IF tokens[i] = token THEN i
  ELSE Find(tokens, token, i + 1)

\* \s*: the first position from i on that holds no whitespace.
RECURSIVE SkipWhitespace(_, _)
SkipWhitespace(tokens, i) ==
  IF i <= Len(tokens) /\ tokens[i] \in Whitespace
  THEN SkipWhitespace(tokens, i + 1)
  ELSE i

TripleQuote == "\"\"\""

\* The pattern system_prompt\s*=\s*"""(.*?)""" tried at position i: the
\* positions of the two triple quotes, <<0, 0>> when it does not match there.
MatchAt(content, i) ==
  LET eq == SkipWhitespace(content, i + 1)
      open == SkipWhitespace(content, eq + 1)
      close == Find(content, TripleQuote, open + 1)
  IN  IF /\ content[i] = "system_prompt"
         /\ eq <= Len(content) /\ content[eq] = "="
         /\ open <= Len(content) /\ content[open] = TripleQuote
         /\ close # 0
      THEN <<open, close>>
      ELSE <<0, 0>>

\* re.search(pattern, content, re.DOTALL): the leftmost match.
RECURSIVE re_search(_, _)
re_search(content, i) ==
  IF i > Len(content) THEN <<0, 0>>
  ELSE IF MatchAt(content, i) # <<0, 0>> THEN MatchAt(content, i)
  ELSE re_search(content, i + 1)

\* (Faulty variant: the file is looked at before the environment.)
load_system_prompt_file_first(env, toml) ==
  LET env_prompt == getenv(env, "SYSTEM_PROMPT", None)
      m == re_search(toml.content, 1)
  IN  IF toml.exists /\ toml.error_at = 0 /\ m # <<0, 0>>
      THEN Return(Join(Strip(SubSeq(toml.content, m[1] + 1, m[2] - 1), Whitespace)))
      ELSE IF Truthy(env_prompt) THEN Return(env_prompt)
      ELSE Return(DEFAULT_SYSTEM_PROMPT)

\* load_system_prompt(toml_path) in the environment env, toml being the file
\* at toml_path.  An exception of the file part is caught and passed over.
load_system_prompt(env, toml) ==
  LET env_prompt == getenv(env, "SYSTEM_PROMPT", None)
      m == re_search(toml.content, 1)
  IN  IF Truthy(env_prompt) THEN Return(env_prompt)
      ELSE IF toml.exists /\ toml.error_at = 0 /\ m # <<0, 0>>
      THEN Return(Join(Strip(SubSeq(toml.content, m[1] + 1, m[2] - 1), Whitespace)))
      ELSE Return(DEFAULT_SYSTEM_PROMPT)

\* One line of the .env file: <<key, value>> when the line sets one, <<>>
\* when the loop passes it over (blank, comment, no "=", empty key).
ParseLine(raw) ==
  LET line == Strip(raw, Whitespace)
      eq == Find(line, "=", 1)
      key == Join(Strip(SubSeq(line, 1, eq - 1), Whitespace))
      value == Join(Strip(Strip(Strip(SubSeq(line, eq + 1, Len(line)), Whitespace),
                                {"\""}), {"'"}))
  IN  IF line = <<>> \/ Head(line) = "#" THEN <<>>
      ELSE IF eq = 0 THEN <<>>
      ELSE IF key = "" THEN <<>>
      ELSE <<key, value>>

SetEnv(env, key, value) ==
  [k \in DOMAIN env \cup {key} |-> IF k = key THEN value ELSE env[k]]

\* (Faulty variant: a key of the file replaces the value the environment
\* has.)
RECURSIVE LoadLinesOverriding(_, _)
LoadLinesOverriding(env, lines) ==
  IF lines = <<>> THEN env
  ELSE LET pair == ParseLine(Head(lines))
       IN  IF pair # <<>>
           THEN LoadLinesOverriding(SetEnv(env, pair[1], pair[2]), Tail(lines))
           ELSE LoadLinesOverriding(env, Tail(lines))

\* for line in f: ...
RECURSIVE LoadLines(_, _)
LoadLines(env, lines) ==
  IF lines = <<>> THEN env
  ELSE LET pair == ParseLine(Head(lines))
       IN  IF pair # <<>> /\ pair[1] \notin DOMAIN env
           THEN LoadLines(SetEnv(env, pair[1], pair[2]), Tail(lines))
           ELSE LoadLines(env, Tail(lines))

\* The lines the loop gets before the end of the file or the exception.
LinesRead(file) ==
  IF file.error_at = 0 THEN file.content
  ELSE SubSeq(file.content, 1, file.error_at - 1)

\* load_env(env_path): the environment after the call, which returns None.
\* The exception of open or of reading a line ends the loop and is caught.
load_env(env, file) ==
  IF ~ file.exists THEN env
  ELSE LoadLines(env, LinesRead(file))

\* str(e) of what the two loaders raise.
ConfigErrorText(e) ==
  IF e = "ConfigException"
  THEN "Invalid kube-config file. No configuration found."
  ELSE "[Errno 13] Permission denied"

\* (Faulty variant: in-cluster discovery is tried first even when a path is
\* given.)
K8sClientInitInClusterFirst(kubeconfig_path, incluster, kube_config) ==
  LET failed(e) == Raise("Exception", "Failed to load Kubernetes config: "
                                        \o ConfigErrorText(e))
      from_file == IF Truthy(kubeconfig_path)
                   THEN "load_kube_config(" \o kubeconfig_path \o ")"
                   ELSE "load_kube_config()"
  IN  IF incluster = "ok"
      THEN [res |-> Return(None), attempts |-> <<"load_incluster_config()">>]
      ELSE [res |-> IF kube_config = "ok" THEN Return(None) ELSE failed(kube_config),
            attempts |-> <<"load_incluster_config()", from_file>>]

\* K8sClient.__init__(kubeconfig_path): incluster and kube_config are what
\* config.load_incluster_config and config.load_kube_config do here ("ok",
\* or the exception they raise).  attempts are the loads tried, in order.
K8sClientInit(kubeconfig_path, incluster, kube_config) ==
  LET failed(e) == Raise("Exception", "Failed to load Kubernetes config: "
                                        \o ConfigErrorText(e))
  IN  IF Truthy(kubeconfig_path)
      THEN [res |-> IF kube_config = "ok" THEN Return(None) ELSE failed(kube_config),
            attempts |-> <<"load_kube_config(" \o kubeconfig_path \o ")">>]
      ELSE IF incluster = "ok"
      THEN [res |-> Return(None), attempts |-> <<"load_incluster_config()">>]
      ELSE IF incluster = "ConfigException"
      THEN [res |-> IF kube_config = "ok" THEN Return(None) ELSE failed(kube_config),
            attempts |-> <<"load_incluster_config()", "load_kube_config()">>]
      ELSE [res |-> failed(incluster), attempts |-> <<"load_incluster_config()">>]

DefaultBaseUrl == "https://api.groq.com/openai/v1"

DefaultModel == "openai/gpt-oss-120b"

\* (Faulty variant: the environment goes before the argument.)
ResolveEnvFirst(argument, env, key, default) ==
  IF key \in DOMAIN env THEN env[key] ELSE Or(argument, default)

\* argument or os.getenv(key, default)
Resolve(argument, env, key, default) == Or(argument, getenv(env, key, default))

\* K8sAgent.__init__ up to the construction of K8sTools: what self.model and
\* the base_url of the OpenAI client become.
K8sAgentResolved(model, base_url, env) ==
  [base_url |-> Resolve(base_url, env, "OPENAI_BASE_URL", DefaultBaseUrl),
   model |-> Resolve(model, env, "MODEL", DefaultModel)]

\* The calls and their inputs.

MaxLines == 2

File(content) == [exists |-> TRUE, content |-> content, error_at |-> 0]

MissingFile == [exists |-> FALSE, content |-> <<>>, error_at |-> 0]

UnreadableFile == [exists |-> TRUE, content |-> <<>>, error_at |-> 1]

\* Environments: each of the three names is unset, set to the empty string
\* or set to a value.
EnvSamples ==
  [SYSTEM_PROMPT |-> {"", "From ENV"},
   MODEL |-> {"", "env/model"},
   OPENAI_BASE_URL |-> {"", "https://env.example/api"}]

Environs ==
  UNION {{env \in [names -> UNION {EnvSamples[k] : k \in DOMAIN EnvSamples}] :
            \A k \in names : env[k] \in EnvSamples[k]} :
         names \in SUBSET DOMAIN EnvSamples}

\* Lines of a .env file.
EnvLines ==
  {<<"MODEL", "=", "test-model">>,
   <<" ", "MODEL", " ", "=", " ", "\"", "quoted/model", "\"", " ">>,
   <<"OPENAI_BASE_URL", "=", "'", "https://example.com/api", "'">>,
   <<"SYSTEM_PROMPT", "=">>,
   <<"KUBECONFIG", "=", "/etc/kube", "=", "config">>,
   <<"#", " ", "MODEL", "=", "commented">>,
   <<"no", " ", "equals", " ", "sign">>,
   <<"=", "orphan">>,
   <<" ">>}

\* .env files: none, one that cannot be opened, the files of up to MaxLines
\* lines, and those of them whose last line cannot be read.
EnvFiles ==
  {MissingFile, UnreadableFile}
    \cup {File(lines) : lines \in SeqsUpTo(EnvLines, MaxLines)}
    \cup {[exists |-> TRUE, content |-> lines, error_at |-> Len(lines)] :
            lines \in SeqsUpTo(EnvLines, MaxLines) \ {<<>>}}

\* Texts of the system prompt file: an entry, an entry with white space
\* inside the quotes, an empty entry, a file without the key, a value in
\* single quotes, an entry that is not closed, one that is not closed and
\* is followed by another triple-quoted value, an entry in a comment, and
\* the empty file.
TomlFiles ==
  {MissingFile, UnreadableFile,
   File(<<"system_prompt", " ", "=", " ", TripleQuote, "From TOML", TripleQuote>>),
   File(<<"title", " ", "=", " ", "\"", "k8s", "\"", "\n",
          "system_prompt", "=", TripleQuote, "\n", " ", "From TOML", " ", "\n",
          TripleQuote, "\n">>),
   File(<<"system_prompt", " ", "=", " ", TripleQuote, TripleQuote>>),
   File(<<"title", " ", "=", " ", TripleQuote, "k8s", TripleQuote>>),
   File(<<"system_prompt", " ", "=", " ", "\"", "From TOML", "\"">>),
   File(<<"system_prompt", " ", "=", " ", TripleQuote, "From TOML">>),
   File(<<"system_prompt", " ", "=", " ", TripleQuote, "From TOML", "\n",
          "title", " ", "=", " ", TripleQuote, "k8s", TripleQuote>>),
   File(<<"#", " ", "system_prompt", " ", "=", " ", TripleQuote, "old",
          TripleQuote, "\n">>),
   File(<<>>)}

KubeconfigPaths == {None, "", "/home/dev/kubeconfig"}

ConfigCallIn(call, file, model, base_url, kubeconfig_path, incluster, kube_config) ==
  [call |-> call, file |-> file, model |-> model, base_url |-> base_url,
   kubeconfig_path |-> kubeconfig_path, incluster |-> incluster,
   kube_config |-> kube_config]

IdleConfigIn == ConfigCallIn("", MissingFile, None, None, None, "ok", "ok")

NoConfigCall == [res |-> NoOutcome, attempts |-> <<>>]

ConfigInputs ==
  {ConfigCallIn("load_env", file, None, None, None, "ok", "ok") :
     file \in EnvFiles}
    \cup {ConfigCallIn("load_system_prompt", file, None, None, None, "ok", "ok") :
            file \in TomlFiles}
    \cup {ConfigCallIn("K8sClient", MissingFile, None, None, path, incluster,
                       kube_config) :
            path \in KubeconfigPaths,
            incluster \in {"ok", "ConfigException", "PermissionError"},
            kube_config \in {"ok", "ConfigException"}}
    \cup {ConfigCallIn("K8sAgent", file, model, base_url, path, incluster,
                       kube_config) :
            file \in {MissingFile,
                      File(<<"system_prompt", " ", "=", " ", TripleQuote,
                             "From TOML", TripleQuote>>)},
            model \in {None, "", "arg/model"},
            base_url \in {None, "", "https://arg.example/api"},
            path \in {None, "/home/dev/kubeconfig"},
            incluster \in {"ok", "ConfigException"},
            kube_config \in {"ok", "ConfigException"}}

\* load_env(): configIn.file is the file at .env.
LoadEnvCall ==
  /\ configIn.call = "load_env"
  /\ configOut.res.kind = "none"
  /\ environ' = load_env(environ, configIn.file)
  /\ configOut' = [res |-> Return(None), attempts |-> <<>>]
  /\ UNCHANGED <<toolIn, toolOut, conversation_history, system_prompt, frame,
                 turns, snapshot, clientIn, clientOut, configIn>>

\* load_system_prompt(): configIn.file is the file at toml_path.
LoadSystemPromptCall ==
  /\ configIn.call = "load_system_prompt"
  /\ configOut.res.kind = "none"
  /\ configOut' = [res |-> load_system_prompt(environ, configIn.file),
                   attempts |-> <<>>]
  /\ UNCHANGED <<toolIn, toolOut, conversation_history, system_prompt, frame,
                 turns, snapshot, clientIn, clientOut, environ, configIn>>

\* K8sClient(kubeconfig_path)
K8sClientConstruct ==
  /\ configIn.call = "K8sClient"
  /\ configOut.res.kind = "none"
  /\ configOut' = K8sClientInit(configIn.kubeconfig_path, configIn.incluster,
                                configIn.kube_config)
  /\ UNCHANGED <<toolIn, toolOut, conversation_history, system_prompt, frame,
                 turns, snapshot, clientIn, clientOut, environ, configIn>>

\* K8sAgent(api_key, kubeconfig_path, model, base_url): the construction of
\* agent 1.  K8sTools(kubeconfig_path) constructs the K8sClient, and what
\* that raises ends the construction; configIn.file is the file at the
\* default toml_path.
K8sAgentConstruct ==
  LET k8s_client == K8sClientInit(configIn.kubeconfig_path, configIn.incluster,
                                  configIn.kube_config)
  IN  /\ configIn.call = "K8sAgent"
      /\ configOut.res.kind = "none"
      /\ IF k8s_client.res.kind = "raise"
         THEN /\ configOut' = k8s_client
              /\ UNCHANGED <<conversation_history, system_prompt>>
         ELSE /\ configOut' =
                   [res |-> Return(K8sAgentResolved(configIn.model,
                                                    configIn.base_url, environ)),
                    attempts |-> k8s_client.attempts]
              /\ conversation_history' = [conversation_history EXCEPT ![1] = <<>>]
              /\ system_prompt' =
                   [system_prompt EXCEPT
                      ![1] = load_system_prompt(environ, configIn.file).value]
      /\ UNCHANGED <<toolIn, toolOut, frame, turns, snapshot, clientIn, clientOut,
                     environ, configIn>>

-----------------------------------------------------------------------------
(* Specifications *)

\* One agent, used by one thread: the single-threaded request-per-turn use
\* of K8sAgentCLI.run.
AgentInit ==
  /\ conversation_history = [a \in {1} |-> <<>>]
  /\ system_prompt = [a \in {1} |-> DEFAULT_SYSTEM_PROMPT]
  /\ frame = [t \in {1} |-> IdleFrame(1)]
  /\ turns = 0

\* No configuration call is under way, and none of the names the code
\* reads is set in the environment.
ConfigInit ==
  /\ environ = <<>>
  /\ configIn = IdleConfigIn
  /\ configOut = NoConfigCall

\* No caller holds a history list and no direct client call is under way.
CallerInit ==
  /\ snapshot = <<>>
  /\ clientIn = IdleClientIn
  /\ clientOut = NoClientCall
  /\ ConfigInit

Init ==
  /\ toolIn = IdleToolIn
  /\ toolOut = NoToolCall
  /\ AgentInit
  /\ CallerInit

Next ==
  \/ \E t \in DOMAIN frame : ChatBegin(t)
  \/ \E t \in DOMAIN frame : ModelQuery1(t)
  \/ \E t \in DOMAIN frame : HandleResponse(t)
  \/ \E t \in DOMAIN frame : ExecuteNextToolCall(t)
  \/ \E t \in DOMAIN frame : ModelQuery2(t)
  \/ \E t \in DOMAIN frame : AppendFinal(t)
  \/ \E t \in DOMAIN frame : HandleException(t)
  \/ \E t \in DOMAIN frame : reset_conversation(t)
  \/ \E t \in DOMAIN frame : set_system_prompt(t)

Spec == Init /\ [][Next]_vars

\* Direct use of the executor (example_usage.py): one execute_tool call on
\* inputs drawn by InitTools.
InitTools ==
  /\ toolIn \in ToolInputs
  /\ toolOut = NoToolCall
  /\ AgentInit
  /\ CallerInit

NextTools == ExecuteToolCall

SpecTools == InitTools /\ [][NextTools]_vars

\* Direct use of the client (example_usage.py): one method call on inputs
\* drawn by InitClient.
InitClient ==
  /\ toolIn = IdleToolIn
  /\ toolOut = NoToolCall
  /\ AgentInit
  /\ snapshot = <<>>
  /\ clientIn \in ClientInputs
  /\ clientOut = NoClientCall
  /\ ConfigInit

NextClient == ClientCall

SpecClient == InitClient /\ [][NextClient]_vars

\* Configuration and construction: one call on inputs drawn by InitConfig,
\* in an environment drawn by it.
InitConfig ==
  /\ toolIn = IdleToolIn
  /\ toolOut = NoToolCall
  /\ AgentInit
  /\ snapshot = <<>>
  /\ clientIn = IdleClientIn
  /\ clientOut = NoClientCall
  /\ environ \in Environs
  /\ configIn \in ConfigInputs
  /\ configOut = NoConfigCall

NextConfig ==
  \/ LoadEnvCall
  \/ LoadSystemPromptCall
  \/ K8sClientConstruct
  \/ K8sAgentConstruct

SpecConfig == InitConfig /\ [][NextConfig]_vars

\* One agent whose caller reads the history between turns and changes the
\* list it got.
NextCaller ==
  \/ \E t \in DOMAIN frame : ChatBegin(t)
  \/ \E t \in DOMAIN frame : ModelQuery1(t)
  \/ \E t \in DOMAIN frame : HandleResponse(t)
  \/ \E t \in DOMAIN frame : ExecuteNextToolCall(t)
  \/ \E t \in DOMAIN frame : ModelQuery2(t)
  \/ \E t \in DOMAIN frame : AppendFinal(t)
  \/ \E t \in DOMAIN frame : HandleException(t)
  \/ \E t \in DOMAIN frame : GetHistory(t)
  \/ \E t \in DOMAIN frame : CallerAppend(t)
  \/ \E t \in DOMAIN frame : CallerRemove(t)
  \/ \E t \in DOMAIN frame : CallerSetField(t)

SpecCaller == Init /\ [][NextCaller]_vars

\* One agent used by two threads at once.
InitConc ==
  /\ toolIn = IdleToolIn
  /\ toolOut = NoToolCall
  /\ conversation_history = [a \in {1} |-> <<>>]
  /\ system_prompt = [a \in {1} |-> DEFAULT_SYSTEM_PROMPT]
  /\ frame = [t \in {1, 2} |-> IdleFrame(1)]
  /\ turns = 0
  /\ CallerInit

NextConc ==
  \/ \E t \in DOMAIN frame : ChatBegin(t)
  \/ \E t \in DOMAIN frame : ModelQuery1(t)
  \/ \E t \in DOMAIN frame : HandleResponse(t)
  \/ \E t \in DOMAIN frame : ExecuteNextToolCall(t)
  \/ \E t \in DOMAIN frame : ModelQuery2(t)
  \/ \E t \in DOMAIN frame : AppendFinal(t)
  \/ \E t \in DOMAIN frame : HandleException(t)

SpecConc == InitConc /\ [][NextConc]_vars

\* Two agents, each constructed on its own and used by its own thread:
\* thread t works on agent t, in one-turn conversations.
InitTwo ==
  /\ toolIn = IdleToolIn
  /\ toolOut = NoToolCall
  /\ conversation_history = [a \in {1, 2} |-> <<>>]
  /\ system_prompt = [a \in {1, 2} |-> DEFAULT_SYSTEM_PROMPT]
  /\ frame = [t \in {1, 2} |-> IdleFrame(t)]
  /\ turns = 0
  /\ CallerInit

NextTwo ==
  \/ \E t \in DOMAIN frame : ChatOnEmptyHistory(t)
  \/ \E t \in DOMAIN frame : ModelQuery1(t)
  \/ \E t \in DOMAIN frame : HandleResponse(t)
  \/ \E t \in DOMAIN frame : ExecuteNextToolCall(t)
  \/ \E t \in DOMAIN frame : ModelQuery2(t)
  \/ \E t \in DOMAIN frame : AppendFinal(t)
  \/ \E t \in DOMAIN frame : HandleException(t)
  \/ \E t \in DOMAIN frame : reset_conversation(t)
  \/ \E t \in DOMAIN frame : set_system_prompt(t)

SpecTwo == InitTwo /\ [][NextTwo]_vars

-----------------------------------------------------------------------------
(* Properties of the executor, checked under SpecTools *)

Called == toolOut.res.kind # "none"

Envelope == toolOut.res.value

IsPrefix(s, t) == Len(s) <= Len(t) /\ SubSeq(t, 1, Len(s)) = s

Contains(str, sub) ==
  \E i \in 1..(Len(str) - Len(sub) + 1) : SubSeq(str, i, i + Len(sub) - 1) = sub

RequiredKeys(tool_name) == SeqToSet(ToolDefinition(tool_name).required)

\* C1: execute_tool never propagates an exception: for every tool name,
\* known or unknown, every argument map (one that lacks required keys and
\* one that is no dict included) and every cluster outcome (served,
\* ApiException, any other exception) the call returns an envelope with a
\* boolean success field.
C1_ExecuteToolNeverRaises ==
  Called => /\ toolOut.res.kind = "return"
            /\ Envelope.success \in BOOLEAN

C1_Witness ==
  /\ Called
  /\ toolIn.outcome = "ConnectionError"
  /\ Len(toolOut.calls) = 1
  /\ toolOut.res.kind = "return"

\* C5: the catalog holds no name twice, and the names it advertises are
\* exactly the names the executor dispatches: a call under an advertised
\* name never gets the unknown-tool failure and, given its required
\* arguments, makes one client call; a call under any other name gets the
\* unknown-tool failure and makes no client call.
C5_CatalogIsDispatchSet ==
  /\ \A i, j \in DOMAIN get_tool_definitions :
       get_tool_definitions[i].name = get_tool_definitions[j].name => i = j
  /\ Called =>
       LET name == toolIn.tool_name
           unknown == /\ ~Envelope.success
                      /\ Envelope.error = "Unknown tool: " \o name
       IN  IF name \in CatalogNames
           THEN /\ ~unknown
                /\ (/\ toolIn.parameters.kind = "dict"
                    /\ RequiredKeys(name) \subseteq DictKeys(toolIn.parameters))
                     => Len(toolOut.calls) = 1
           ELSE unknown /\ toolOut.calls = <<>>

C5_Witness ==
  /\ Called
  /\ toolIn.tool_name = "delete_secret"
  /\ Len(toolOut.calls) = 1
  /\ toolOut.calls[1].method = "delete_secret"

\* C6: for every catalog operation called with an argument map, a missing
\* required parameter gives a failed envelope and no client call; when no
\* required parameter is missing the client is called once, whichever
\* other parameters are absent, and a served call gives a success envelope.
C6_RequiredParameters ==
  (Called /\ toolIn.tool_name \in CatalogNames /\ toolIn.parameters.kind = "dict") =>
     LET missing == RequiredKeys(toolIn.tool_name) \ DictKeys(toolIn.parameters)
     IN  IF missing # {}
         THEN ~Envelope.success /\ toolOut.calls = <<>>
         ELSE /\ Len(toolOut.calls) = 1
              /\ toolIn.outcome = "ok" => Envelope.success

C6_Witness ==
  /\ Called
  /\ toolIn.tool_name = "scale_deployment"
  /\ toolIn.parameters.kind = "dict"
  /\ DictKeys(toolIn.parameters) = {"name"}
  /\ ~Envelope.success
  /\ toolOut.calls = <<>>

C8_EnvelopeShape ==
  Called =>
    /\ toolOut.res.kind = "return"
    /\ "success" \in DOMAIN Envelope
    /\ Envelope.success \in BOOLEAN
    /\ "data" \in DOMAIN Envelope <=> Envelope.success
    /\ "error" \in DOMAIN Envelope <=> ~Envelope.success
    /\ ~Envelope.success => Envelope.error \in STRING

C8_Witness ==
  /\ Called
  /\ toolIn.outcome = "ApiException"
  /\ Len(toolOut.calls) = 1
  /\ ~Envelope.success
  /\ DOMAIN Envelope = {"success", "error"}

-----------------------------------------------------------------------------
(* Properties of the orchestrator, checked under Spec *)

Threads == DOMAIN frame

Agents == DOMAIN conversation_history

\* Thread t is outside chat and its last chat call has ended.
Returned(t) == frame[t].pc = "idle" /\ frame[t].ret.kind # "none"

RequestsTools(m) == m.role = "assistant" /\ "tool_calls" \in DOMAIN m

\* The position of the first assistant message after position i, or one
\* past the end of the history.
NextAssistant(h, i) ==
  LET later == {j \in (i + 1)..Len(h) : h[j].role = "assistant"}
  IN  IF later = {} THEN Len(h) + 1 ELSE CHOOSE j \in later : \A k \in later : j <= k

\* Every invocation an assistant message requests has exactly one tool
\* message with its call id between that message and the next assistant
\* message.
HistoryConsistent(h) ==
  \A i \in DOMAIN h :
    RequestsTools(h[i]) =>
      \A k \in DOMAIN h[i].tool_calls :
        Cardinality({j \in (i + 1)..(NextAssistant(h, i) - 1) :
                       /\ h[j].role = "tool"
                       /\ h[j].tool_call_id = h[i].tool_calls[k].id}) = 1

\* C2: whenever chat has returned, on every path, each invocation listed in
\* an assistant message's tool_calls has exactly one tool message with its
\* call id after that message and before the next assistant message.
C2_NeverLeftMidBatch ==
  \A t \in Threads :
    Returned(t) => HistoryConsistent(conversation_history[frame[t].agent])

\* C3: when chat has returned from a turn whose first response requested n
\* invocations, execute_tool was called once for each of the n, in request
\* order, the history ends with the requesting assistant message, the n
\* tool messages in request order and the reply, and two model calls were
\* made.
C3_BatchRunsToCompletion ==
  \A t \in Threads :
    LET h == conversation_history[frame[t].agent]
        tool_calls == frame[t].response.tool_calls
        n == Len(tool_calls)
        at == Len(h) - n - 1
    IN  (Returned(t) /\ n > 0 /\ h # <<>>) =>
          /\ Len(frame[t].executed) = n
          /\ \A k \in 1..n : frame[t].executed[k].id = tool_calls[k].id
          /\ at >= 1
          /\ RequestsTools(h[at])
          /\ h[at].tool_calls = tool_calls
          /\ \A k \in 1..n : /\ h[at + k].role = "tool"
                             /\ h[at + k].tool_call_id = tool_calls[k].id
          /\ h[Len(h)] = AssistantMsg(frame[t].ret.value)
          /\ Len(frame[t].model_calls) = 2

\* C4: chat never raises: it ends as a return on every path, and after a
\* failure of a model call, of parsing a tool call's arguments or of tool
\* execution the value returned is the text "Error processing request: "
\* followed by the error's message.
C4_ChatNeverRaises ==
  \A t \in Threads :
    /\ frame[t].ret.kind # "raise"
    /\ (frame[t].pc = "idle" /\ frame[t].exc # NoExc) =>
         /\ frame[t].ret.kind = "return"
         /\ frame[t].ret.value \in STRING
         /\ frame[t].ret.value = "Error processing request: " \o frame[t].exc.msg

C4_Witness ==
  \E t \in Threads :
    /\ Returned(t)
    /\ frame[t].exc.type = "JSONDecodeError"
    /\ frame[t].ret.kind = "return"

\* C9: every step other than a reset_conversation leaves each agent's
\* history a prefix of what it becomes: messages are only appended, none is
\* edited, removed or reordered.
C9_HistoryAppendOnly ==
  [][\/ \E t \in Threads : reset_conversation(t)
     \/ \A a \in Agents :
          IsPrefix(conversation_history[a], conversation_history'[a])]_vars

C9_Witness ==
  \E t \in Threads :
    /\ Returned(t)
    /\ turns = 2
    /\ Len(conversation_history[frame[t].agent]) >= 6

\* C10: the history is empty at construction, a reset_conversation leaves
\* it empty, so that get_conversation_history then returns the empty
\* sequence, and no step cuts a history down to a non-empty proper prefix.
C10_ResetEmptiesHistory ==
  /\ \A a \in Agents : get_conversation_history(a) = <<>>
  /\ [][/\ \A t \in Threads :
             reset_conversation(t) => conversation_history'[frame[t].agent] = <<>>
        /\ \A a \in Agents :
             ~ /\ conversation_history'[a] # <<>>
               /\ Len(conversation_history'[a]) < Len(conversation_history[a])
               /\ IsPrefix(conversation_history'[a], conversation_history[a])]_vars

C10_Witness ==
  \E t \in Threads :
    /\ Returned(t)
    /\ turns >= 1
    /\ get_conversation_history(frame[t].agent) = <<>>

\* The user message of the turn thread t last started.
TurnUserMsg == [role |-> "user", content |-> UserMessages[turns]]

\* Thread t has returned from a turn whose first model response carried no
\* tool calls, and the history was not reset since.
PlainTurnDone(t) ==
  /\ Returned(t)
  /\ frame[t].exc = NoExc
  /\ Len(frame[t].response.tool_calls) = 0
  /\ conversation_history[frame[t].agent] # <<>>

\* C11: after a turn whose first model response carries no tool calls, the
\* history is the history of before the turn followed by exactly two
\* messages, the user message and an assistant message with the model's
\* content; one model call and no execute_tool call were made, and the
\* content is what chat returned.
C11_PlainTurn ==
  \A t \in Threads :
    LET h == conversation_history[frame[t].agent]
        before == SubSeq(frame[t].messages, 2, Len(frame[t].messages) - 1)
    IN  PlainTurnDone(t) =>
          /\ Len(h) = Len(before) + 2
          /\ h = before \o <<TurnUserMsg,
                              [role |-> "assistant",
                               content |-> frame[t].response.content]>>
          /\ Len(frame[t].model_calls) = 1
          /\ frame[t].executed = <<>>
          /\ frame[t].ret = Return(frame[t].response.content)
          /\ frame[t].response.content = ModelReplyText

C11_Witness ==
  \E t \in Threads :
    /\ PlainTurnDone(t)
    /\ turns = 2
    /\ Len(conversation_history[frame[t].agent]) > 2

\* C12: when either model call of a turn raised an exception with message
\* m, the last history entry of the turn is an assistant message whose
\* content is "Error processing request: " followed by m, chat returned
\* that same text, and the user message of the turn and everything
\* appended before the failure are still in the history.
C12_ModelErrorRecorded ==
  \A t \in Threads :
    LET h == conversation_history[frame[t].agent]
        text == "Error processing request: " \o frame[t].exc.msg
        sent == frame[t].model_calls[Len(frame[t].model_calls)].messages
    IN  (Returned(t) /\ frame[t].exc.type = "APIConnectionError" /\ h # <<>>) =>
          /\ frame[t].exc.msg = ModelErrorText
          /\ h[Len(h)] = [role |-> "assistant", content |-> text]
          /\ frame[t].ret = Return(text)
          /\ SubSeq(h, 1, Len(h) - 1) = Tail(sent)
          /\ \E i \in 1..(Len(h) - 1) : h[i] = TurnUserMsg

C12_Witness ==
  \E t \in Threads :
    /\ Returned(t)
    /\ frame[t].exc.type = "APIConnectionError"
    /\ Len(frame[t].model_calls) = 2
    /\ conversation_history[frame[t].agent] # <<>>

\* Thread t is inside chat.
InTurn(t) == frame[t].pc # "idle"

\* C13: a turn makes at most two model calls.  The first is sent the system
\* prompt, the whole history up to and including the new user message, and
\* the full catalog as tools.  A second call is made only when the first
\* response requested at least one invocation and every one of them has its
\* tool message; it is sent the system prompt and the history so updated,
\* and no tool list.
C13_TwoPhaseProtocol ==
  \A t \in Threads :
    LET a == frame[t].agent
        h == conversation_history[a]
        calls == frame[t].model_calls
        tool_calls == frame[t].response.tool_calls
        n == Len(tool_calls)
    IN  /\ Len(calls) <= 2
        /\ frame[t].pc \in {"respond", "loop", "model2"} => Len(calls) = 1
        /\ frame[t].pc = "final" => Len(calls) = 2
        /\ Len(calls) >= 1 =>
             LET first == calls[1].messages
             IN  /\ Len(calls[1].tools) = Len(get_tool_definitions)
                 /\ \A i \in DOMAIN get_tool_definitions :
                      calls[1].tools[i] = get_tool_definitions[i].name
                 /\ first[1].role = "system"
                 /\ first[Len(first)].role = "user"
                 /\ \A i \in 2..Len(first) : first[i].role # "system"
                 /\ InTurn(t) =>
                      /\ first[1].content = system_prompt[a]
                      /\ first[Len(first)] = TurnUserMsg
                      /\ IsPrefix(Tail(first), h)
                      /\ \A i \in (Len(first) + 1)..Len(h) : h[i].role # "user"
        /\ Len(calls) = 2 =>
             LET first == calls[1].messages
                 second == calls[2].messages
                 at == Len(second) - n
             IN  /\ n >= 1
                 /\ Len(frame[t].executed) = n
                 /\ calls[2].tools = <<>>
                 /\ second[1].role = "system"
                 /\ SubSeq(second, 2, at - 1) = Tail(first)
                 /\ RequestsTools(second[at])
                 /\ second[at].tool_calls = tool_calls
                 /\ \A k \in 1..n :
                      /\ second[at + k].role = "tool"
                      /\ second[at + k].tool_call_id = tool_calls[k].id
                 /\ InTurn(t) =>
                      /\ second[1].content = system_prompt[a]
                      /\ Tail(second) = h

C13_Witness ==
  \E t \in Threads :
    /\ frame[t].pc = "final"
    /\ Len(frame[t].model_calls) = 2
    /\ Len(frame[t].response.tool_calls) = 2
    /\ turns = 2

\* C15: set_system_prompt leaves the history as it is; every model call
\* made afterwards is sent the agent's current prompt as its one system
\* message, in first place; and the history never holds a system message,
\* only user, assistant and tool messages.
C15_SystemPromptNotInHistory ==
  /\ [](\A t \in Threads :
          LET a == frame[t].agent
              calls == frame[t].model_calls
          IN  /\ \A i \in DOMAIN conversation_history[a] :
                   conversation_history[a][i].role \in {"user", "assistant", "tool"}
              /\ \A k \in DOMAIN calls :
                   /\ calls[k].messages[1].role = "system"
                   /\ \A i \in 2..Len(calls[k].messages) :
                        calls[k].messages[i].role # "system"
                   /\ InTurn(t) =>
                        calls[k].messages[1].content = system_prompt[a])
  /\ [][\A t \in Threads :
           set_system_prompt(t) =>
             /\ UNCHANGED conversation_history
             /\ system_prompt'[frame[t].agent] \in Prompts]_vars

C15_Witness ==
  \E t \in Threads :
    /\ frame[t].pc = "final"
    /\ system_prompt[frame[t].agent] \in Prompts
    /\ \A k \in 1..2 :
         frame[t].model_calls[k].messages[1] =
           [role |-> "system", content |-> system_prompt[frame[t].agent]]

\* C17: nothing is retried.  Each requested invocation is run at most once
\* and makes at most one client call; when that call fails, the failure is
\* the invocation's failed envelope, in its tool message.  A model call that
\* fails is the last model call of its turn and the turn goes to the
\* turn-level error at once.
C17_NoRetry ==
  \A t \in Threads :
    LET h == conversation_history[frame[t].agent]
        tool_calls == frame[t].response.tool_calls
        executed == frame[t].executed
        calls == frame[t].model_calls
    IN  /\ Len(executed) <= Len(tool_calls)
        /\ \A k \in DOMAIN executed :
             /\ executed[k].id = tool_calls[k].id
             /\ Len(executed[k].calls) <= 1
             /\ InTurn(t) =>
                  LET m == h[Len(h) - Len(executed) + k]
                  IN  /\ m.role = "tool"
                      /\ m.tool_call_id = executed[k].id
                      /\ m.content.json.success => Len(executed[k].calls) = 1
                      /\ (~ m.content.json.success /\ executed[k].calls # <<>>) =>
                           Contains(m.content.json.error, ApiExceptionText)
        /\ frame[t].exc.type = "APIConnectionError" =>
             /\ frame[t].pc \in {"except", "idle"}
             /\ Len(calls) = IF Len(tool_calls) = 0 THEN 1 ELSE 2
        /\ Len(calls) <= 2

C17_Witness ==
  \E t \in Threads :
    /\ frame[t].pc = "except"
    /\ frame[t].exc.type = "APIConnectionError"
    /\ Len(frame[t].executed) = 2
    /\ \A k \in 1..2 : Len(frame[t].executed[k].calls) = 1
    /\ ~ conversation_history[frame[t].agent]
            [Len(conversation_history[frame[t].agent])].content.json.success

-----------------------------------------------------------------------------
(* Properties of the list get_conversation_history returns, checked under  *)
(* SpecCaller                                                              *)

\* C14: the list get_conversation_history returns is independent of the
\* live history: appending to it, removing from it or changing a field of
\* one of its messages leaves the agent's history as it was, and no model
\* call of a later turn is sent a message the caller edited.
C14_SnapshotIndependent ==
  /\ [][\A t \in Threads :
           (CallerAppend(t) \/ CallerRemove(t) \/ CallerSetField(t)) =>
             UNCHANGED conversation_history]_vars
  /\ [](\A t \in Threads :
          \A k \in DOMAIN frame[t].model_calls :
            \A i \in DOMAIN frame[t].model_calls[k].messages :
              frame[t].model_calls[k].messages[i].role = "user" =>
                frame[t].model_calls[k].messages[i].content # CallerText)

-----------------------------------------------------------------------------
(* Properties of two threads on one agent, checked under SpecConc *)

\* C16: two turns on one agent never interleave: no thread is inside chat
\* on an agent while another thread is between its own user-message append
\* and its last append, so that in the history every user message but the
\* first follows the reply that closed the turn before it.
C16_TurnsDoNotInterleave ==
  /\ \A t1, t2 \in Threads :
       (t1 # t2 /\ frame[t1].agent = frame[t2].agent) =>
         ~ (InTurn(t1) /\ InTurn(t2))
  /\ \A a \in Agents :
       \A i \in 2..Len(conversation_history[a]) :
         conversation_history[a][i].role = "user" =>
           /\ conversation_history[a][i - 1].role = "assistant"
           /\ ~ RequestsTools(conversation_history[a][i - 1])

-----------------------------------------------------------------------------
(* Properties of the K8sClient methods, checked under SpecClient *)

\* The direct call of method has returned.
ClientReturned(method) ==
  clientIn.method = method /\ clientOut.res.kind = "return"

\* The largest whole unit that is at least 1 of an age in seconds, in the
\* order days, hours, minutes, seconds.
LargestWholeUnit(seconds_ago) ==
  IF seconds_ago >= 24 * 3600 THEN ToString(seconds_ago \div (24 * 3600)) \o "d"
  ELSE IF seconds_ago >= 3600 THEN ToString(seconds_ago \div 3600) \o "h"
  ELSE IF seconds_ago >= 60 THEN ToString(seconds_ago \div 60) \o "m"
  ELSE ToString(seconds_ago) \o "s"

\* C18: for every non-negative age, _calculate_age reports the largest
\* whole unit that is at least 1, in the order days, hours, minutes,
\* seconds: exactly one hour is "1h", exactly one minute is "1m", 25 hours
\* is "1d", 90 minutes is "1h"; a missing timestamp is "unknown".
C18_AgeLargestUnit ==
  ClientReturned("_calculate_age") =>
    LET ts == clientIn.creation_timestamp
        age == clientOut.res.value
    IN  /\ ~ ts.is_none => age = LargestWholeUnit(ts.seconds_ago)
        /\ ts = Timestamp(3600) => age = "1h"
        /\ ts = Timestamp(60) => age = "1m"
        /\ ts = Timestamp(25 * 3600) => age = "1d"
        /\ ts = Timestamp(90 * 60) => age = "1h"
        /\ ts.is_none => age = "unknown"

\* The sum of the restart counts of the first n containers.
RECURSIVE RestartsOfFirst(_, _)
RestartsOfFirst(container_statuses, n) ==
  IF n = 0
  THEN 0
  ELSE RestartsOfFirst(container_statuses, n - 1) + container_statuses[n].restart_count

\* C19: get_pods, whose return value list_pods hands on as data, returns
\* one summary per pod the cluster lists, in the cluster's order; a pod's
\* ready is true exactly when every one of its containers reports ready,
\* and its restarts is the sum of its containers' restart counts.
C19_PodSummaries ==
  ClientReturned("get_pods") =>
    LET pods == clientIn.items
        result == clientOut.res.value
    IN  /\ Len(result) = Len(pods)
        /\ \A i \in DOMAIN pods :
             LET statuses == pods[i].container_statuses
             IN  /\ result[i].name = pods[i].name
                 /\ result[i].ready \in BOOLEAN
                 /\ result[i].ready <=>
                      ~ \E k \in DOMAIN statuses : ~ statuses[k].ready
                 /\ result[i].restarts = RestartsOfFirst(statuses, Len(statuses))
        /\ Len(clientOut.requests) = 1

C19_Witness ==
  /\ ClientReturned("get_pods")
  /\ Len(clientOut.res.value) = 2
  /\ clientOut.res.value[1].name # clientOut.res.value[2].name
  /\ ~ clientOut.res.value[1].ready
  /\ Len(clientIn.items[1].container_statuses) = 2
  /\ clientIn.items[1].container_statuses[2].ready
  /\ clientOut.res.value[1].restarts = 3
  /\ clientOut.res.value[2].ready
  /\ clientOut.res.value[2].restarts = 2

\* Two secret data that have the same keys in the same order.
SameKeys(d1, d2) ==
  /\ Len(d1) = Len(d2)
  /\ \A k \in DOMAIN d1 : d1[k][1] = d2[k][1]

\* Two secret lists that differ at most in the values stored under the
\* same keys.
SameButValues(l1, l2) ==
  /\ Len(l1) = Len(l2)
  /\ \A i \in DOMAIN l1 :
       /\ SameKeys(l1[i].data, l2[i].data)
       /\ [l1[i] EXCEPT !.data = <<>>] = [l2[i] EXCEPT !.data = <<>>]

\* The data get_secrets or create_secret returned is the same for every
\* input that differs only in the values under the same keys.
SecretDataValueIndependent ==
  /\ ClientReturned("get_secrets") =>
       \A other \in SecretLists :
         SameButValues(other, clientIn.items) =>
           get_secrets("default", other, "ok").res = clientOut.res
  /\ ClientReturned("create_secret") =>
       \A other \in SecretDatas :
         SameKeys(other, clientIn.data) =>
           create_secret("db", other, "default", "Opaque", "ok").res = clientOut.res

\* C20 as stated: what get_secrets and create_secret return, which
\* list_secrets and create_secret hand on as data, does not depend on
\* secret values and contains only secret names, types, key names and key
\* counts.
C20_OnlyNamesTypesKeysCounts ==
  /\ SecretDataValueIndependent
  /\ ClientReturned("get_secrets") =>
       \A i \in DOMAIN clientOut.res.value :
         DOMAIN clientOut.res.value[i] \subseteq
           {"name", "type", "data_keys", "data_count"}
  /\ ClientReturned("create_secret") =>
       DOMAIN clientOut.res.value \subseteq
         {"name", "type", "data_keys", "data_count"}

\* C20, amended: the data does not depend on secret values and holds no
\* value: get_secrets reports each secret's name, namespace, type, key
\* count, key names and age; create_secret reports the name, namespace,
\* type, key names and a confirmation message built from the name.
C20_SecretValuesNotReturned ==
  /\ SecretDataValueIndependent
  /\ ClientReturned("get_secrets") =>
       /\ Len(clientOut.res.value) = Len(clientIn.items)
       /\ \A i \in DOMAIN clientOut.res.value :
            LET summary == clientOut.res.value[i]
            IN  /\ DOMAIN summary = {"name", "namespace", "type", "data_count",
                                     "data_keys", "age"}
                /\ summary.name = clientIn.items[i].name
                /\ summary.type = clientIn.items[i].type
                /\ summary.data_count = Len(clientIn.items[i].data)
                /\ Len(summary.data_keys) = summary.data_count
                /\ \A k \in DOMAIN summary.data_keys :
                     summary.data_keys[k] = clientIn.items[i].data[k][1]
  /\ ClientReturned("create_secret") =>
       /\ DOMAIN clientOut.res.value =
            {"name", "namespace", "type", "data_keys", "message"}
       /\ Len(clientOut.res.value.data_keys) = Len(clientIn.data)
       /\ \A k \in DOMAIN clientIn.data :
            /\ clientOut.res.value.data_keys[k] = clientIn.data[k][1]
            /\ ~ Contains(clientOut.res.value.message, clientIn.data[k][2])
            /\ ~ Contains(clientOut.res.value.message, b64encode(clientIn.data[k][2]))

C20_Witness ==
  /\ ClientReturned("get_secrets")
  /\ Len(clientIn.items) = 2
  /\ Len(clientIn.items[1].data) = 2
  /\ clientIn.items[1].data[1][2] # clientIn.items[1].data[2][2]
  /\ clientOut.res.value[1].data_keys = <<"username", "password">>
  /\ clientOut.res.value[2].data_count = 1

-----------------------------------------------------------------------------
(* Further properties of the orchestrator, checked under Spec *)

\* C27: whenever chat has returned, the last message of the history is an
\* assistant message without tool calls whose content is the value chat
\* returned, on the plain path, the tool path and the error path alike: the
\* history does not end with a user message, a tool message or a message
\* that requests invocations.
C27_HistoryEndsWithReply ==
  \A t \in Threads :
    LET h == conversation_history[frame[t].agent]
    IN  (Returned(t) /\ h # <<>>) =>
          /\ frame[t].ret.kind = "return"
          /\ h[Len(h)].role = "assistant"
          /\ DOMAIN h[Len(h)] = {"role", "content"}
          /\ h[Len(h)].content = frame[t].ret.value

\* Two turns in one run: a plain reply, then a tool turn that
\* ended in the error path.
C27_Witness ==
  \E t \in Threads :
    LET h == conversation_history[frame[t].agent]
    IN  /\ Returned(t)
        /\ turns = 2
        /\ Len(h) >= 5
        /\ h[2].content = ModelReplyText
        /\ frame[t].exc # NoExc
        /\ Len(frame[t].executed) >= 1

\* The argument texts that are not valid JSON.
InvalidJson(text) == text = "{\"name\": \"web\""

\* The position of the first invocation of a batch whose argument text is
\* not valid JSON, 0 if there is none.
FirstInvalid(tool_calls) ==
  LET bad == {k \in DOMAIN tool_calls : InvalidJson(tool_calls[k].function.arguments)}
  IN  IF bad = {} THEN 0 ELSE CHOOSE k \in bad : \A j \in bad : k <= j

\* C29: when the argument text of the i-th invocation of a batch is not
\* valid JSON, execute_tool is called for invocations 1 to i-1 only, no
\* second model call is made, and the turn ends with the "Error processing
\* request" message: the history ends with the assistant message that
\* requests the whole batch, the tool messages of invocations 1 to i-1 and
\* the error message.
C29_BadArgumentsEndTheBatch ==
  \A t \in Threads :
    LET h == conversation_history[frame[t].agent]
        tool_calls == frame[t].response.tool_calls
        i == FirstInvalid(tool_calls)
        at == Len(h) - i
    IN  (Returned(t) /\ i > 0 /\ h # <<>>) =>
          /\ Len(frame[t].executed) = i - 1
          /\ \A k \in 1..(i - 1) : frame[t].executed[k].id = tool_calls[k].id
          /\ Len(frame[t].model_calls) = 1
          /\ at >= 1
          /\ RequestsTools(h[at])
          /\ h[at].tool_calls = tool_calls
          /\ \A k \in 1..(i - 1) :
               /\ h[at + k].role = "tool"
               /\ h[at + k].tool_call_id = tool_calls[k].id
          /\ h[Len(h)].role = "assistant"
          /\ ~ RequestsTools(h[Len(h)])
          /\ IsPrefix("Error processing request: ", h[Len(h)].content)
          /\ frame[t].ret = Return(h[Len(h)].content)

C29_Witness ==
  \E t \in Threads :
    /\ Returned(t)
    /\ FirstInvalid(frame[t].response.tool_calls) = 2
    /\ Len(frame[t].executed) = 1
    /\ frame[t].exc.type = "JSONDecodeError"
    /\ conversation_history[frame[t].agent] # <<>>

\* C30: when the second model call of a turn fails, every invocation of
\* the batch was run exactly once before it, with at most one client call
\* each and nothing run afterwards; the tool messages of the batch are in
\* the history in request order, and the error message follows them as the
\* reply of the turn.
C30_SecondCallFailure ==
  \A t \in Threads :
    LET h == conversation_history[frame[t].agent]
        tool_calls == frame[t].response.tool_calls
        n == Len(tool_calls)
        at == Len(h) - n - 1
    IN  (/\ Returned(t)
         /\ Len(frame[t].model_calls) = 2
         /\ frame[t].exc.type = "APIConnectionError"
         /\ h # <<>>) =>
          /\ n >= 1
          /\ Len(frame[t].executed) = n
          /\ \A k \in 1..n :
               /\ frame[t].executed[k].id = tool_calls[k].id
               /\ frame[t].executed[k].name = tool_calls[k].function.name
               /\ Len(frame[t].executed[k].calls) <= 1
          /\ at >= 1
          /\ RequestsTools(h[at])
          /\ \A k \in 1..n :
               /\ h[at + k].role = "tool"
               /\ h[at + k].tool_call_id = tool_calls[k].id
               /\ h[at + k] = frame[t].model_calls[2].messages[at + k + 1]
          /\ h[Len(h)] = [role |-> "assistant",
                           content |-> "Error processing request: " \o ModelErrorText]
          /\ frame[t].ret = Return(h[Len(h)].content)

C30_Witness ==
  \E t \in Threads :
    /\ Returned(t)
    /\ Len(frame[t].model_calls) = 2
    /\ frame[t].exc.type = "APIConnectionError"
    /\ Len(frame[t].executed) = 2
    /\ Len(frame[t].executed[1].calls) = 1
    /\ conversation_history[frame[t].agent] # <<>>

-----------------------------------------------------------------------------
(* Further properties of the executor, checked under SpecTools *)

\* The branch of the if/elif chain that serves a catalog name.
BranchFor(tool_name) ==
  CHOOSE b \in SeqToSet(ExecBranches) : b.tool_name = tool_name

\* The defaults the claim names.
NamedDefaults ==
  {<<"namespace", "default">>, <<"tail_lines", "100">>, <<"replicas", "1">>,
   <<"service_type", "ClusterIP">>, <<"secret_type", "Opaque">>}

\* C25: for every catalog operation and every optional parameter whose
\* schema declares a default, execute_tool called without that parameter
\* passes the declared default to the client call, in that parameter's
\* place (namespace "default", tail_lines 100, replicas 1, service_type
\* "ClusterIP", secret_type "Opaque"); the defaults the executor applies
\* and the defaults the catalog declares are the same.
C25_DeclaredDefaultsApplied ==
  /\ \A i \in DOMAIN get_tool_definitions :
       LET def == get_tool_definitions[i]
           accesses == BranchFor(def.name).accesses
       IN  /\ \A d \in def.defaults :
                /\ d \in NamedDefaults
                /\ d[1] \notin SeqToSet(def.required)
                /\ \E j \in DOMAIN accesses :
                     accesses[j] = [op |-> "get", key |-> d[1], default |-> d[2]]
           /\ \A j \in DOMAIN accesses :
                (accesses[j].op = "get" /\ accesses[j].default # None) =>
                  <<accesses[j].key, accesses[j].default>> \in def.defaults
  /\ (/\ Called
      /\ toolIn.tool_name \in CatalogNames
      /\ toolIn.parameters.kind = "dict"
      /\ Len(toolOut.calls) = 1) =>
       LET def == ToolDefinition(toolIn.tool_name)
           accesses == BranchFor(toolIn.tool_name).accesses
           args == toolOut.calls[1].args
       IN  /\ Len(args) = Len(accesses)
           /\ \A j \in DOMAIN accesses :
                IF accesses[j].key \in DictKeys(toolIn.parameters)
                THEN args[j] = DictValue(toolIn.parameters, accesses[j].key)
                ELSE \A d \in def.defaults : d[1] = accesses[j].key => args[j] = d[2]

C25_Witness ==
  /\ Called
  /\ toolIn.tool_name = "get_pod_logs"
  /\ DictKeys(toolIn.parameters) = {"name"}
  /\ Len(toolOut.calls) = 1
  /\ toolOut.calls[1].args = <<ArgValue, "default", "100">>

-----------------------------------------------------------------------------
(* Further properties of the K8sClient methods, checked under SpecClient *)

\* The direct call was an update of a pod's or a deployment's image, and
\* the cluster served the read of the resource.
ImageUpdateDone ==
  /\ clientIn.method \in {"update_pod_image", "update_deployment_image"}
  /\ clientOut.res.kind # "none"
  /\ clientIn.outcome # "ApiException"

PatchRequests ==
  {k \in DOMAIN clientOut.requests :
     clientOut.requests[k].api \in {"patch_namespaced_pod",
                                    "patch_namespaced_deployment"}}

\* C21: update_pod_image and update_deployment_image on a resource that
\* has no container of the given name end in the failed envelope that says
\* the container was not found, and send no patch; on a resource that has
\* one, one patch is sent, and its body is the resource with the image of
\* that container replaced and every other container as it was.
C21_ImageUpdate ==
  ImageUpdateDone =>
    LET containers == clientIn.items
        name == clientIn.container_name
        kind == IF clientIn.method = "update_pod_image" THEN "pod" ELSE "deployment"
    IN  IF \A j \in DOMAIN containers : containers[j].name # name
        THEN /\ clientOut.res.kind = "raise"
             /\ ExecuteToolExcept(clientOut.res).kind = "return"
             /\ ~ ExecuteToolExcept(clientOut.res).value.success
             /\ IsPrefix("Container " \o name \o " not found in " \o kind,
                         ExecuteToolExcept(clientOut.res).value.error)
             /\ PatchRequests = {}
        ELSE /\ Cardinality(PatchRequests) = 1
             /\ \A k \in PatchRequests :
                  LET patched == clientOut.requests[k].body.containers
                  IN  /\ Len(patched) = Len(containers)
                      /\ \A j \in DOMAIN containers :
                           /\ patched[j].name = containers[j].name
                           /\ patched[j].image =
                                IF containers[j].name = name
                                THEN NewImage ELSE containers[j].image
             /\ clientIn.outcome = "ok" =>
                  /\ clientOut.res.kind = "return"
                  /\ clientOut.res.value.container = name
                  /\ clientOut.res.value.new_image = NewImage

C21_Witness ==
  /\ ImageUpdateDone
  /\ clientIn.method = "update_deployment_image"
  /\ Len(clientIn.items) = 2
  /\ clientIn.container_name = "absent"
  /\ clientOut.res.kind = "raise"
  /\ Len(clientOut.requests) = 1

-----------------------------------------------------------------------------
(* Properties of configuration and construction, checked under SpecConfig *)

ConfigReturned(call) ==
  /\ configIn.call = call
  /\ configOut.res.kind # "none"

\* The matches of system_prompt, "=", and a triple-quoted text in content,
\* white space allowed around the "=": <<i, open, close>> for the key at i
\* and the text between the triple quotes at open and at close, close being
\* the first triple quote after open.
PromptEntries(content) ==
  {e \in (DOMAIN content) \X (DOMAIN content) \X (DOMAIN content) :
     /\ e[1] < e[2] /\ e[2] < e[3]
     /\ content[e[1]] = "system_prompt"
     /\ content[e[2]] = TripleQuote
     /\ content[e[3]] = TripleQuote
     /\ \E eq \in (e[1] + 1)..(e[2] - 1) :
          /\ content[eq] = "="
          /\ \A k \in ((e[1] + 1)..(e[2] - 1)) \ {eq} : content[k] \in Whitespace
     /\ \A k \in (e[2] + 1)..(e[3] - 1) : content[k] # TripleQuote}

FirstPromptEntry(content) ==
  CHOOSE e \in PromptEntries(content) :
    \A f \in PromptEntries(content) : e[1] <= f[1]

\* What load_system_prompt is to return when override says whether the
\* environment decides.
PromptExpected(override) ==
  LET toml == configIn.file
      e == FirstPromptEntry(toml.content)
  IN  IF override THEN environ["SYSTEM_PROMPT"]
      ELSE IF toml.exists /\ toml.error_at = 0 /\ PromptEntries(toml.content) # {}
      THEN Join(Strip(SubSeq(toml.content, e[2] + 1, e[3] - 1), Whitespace))
      ELSE DEFAULT_SYSTEM_PROMPT

\* C22 as stated: load_system_prompt returns the value of SYSTEM_PROMPT
\* whenever the variable is set, whatever the file holds; else the text of
\* the file's system_prompt entry; else DEFAULT_SYSTEM_PROMPT; and it never
\* raises.
C22_EnvSetWins ==
  ConfigReturned("load_system_prompt") =>
    /\ configOut.res.kind = "return"
    /\ configOut.res.value = PromptExpected("SYSTEM_PROMPT" \in DOMAIN environ)

\* C22: load_system_prompt never raises and returns the value of
\* SYSTEM_PROMPT when the variable is set to a non-empty string, whatever
\* the file holds; when it is unset or empty and the file can be read and
\* its text has a match of system_prompt = """...""", the text of the first
\* match without its leading and trailing white space; and
\* DEFAULT_SYSTEM_PROMPT in every other case.
C22_PromptPrecedence ==
  ConfigReturned("load_system_prompt") =>
    /\ configOut.res.kind = "return"
    /\ configOut.res.value =
         PromptExpected(/\ "SYSTEM_PROMPT" \in DOMAIN environ
                        /\ environ["SYSTEM_PROMPT"] # "")

C22_Witness ==
  /\ ConfigReturned("load_system_prompt")
  /\ "SYSTEM_PROMPT" \in DOMAIN environ
  /\ environ["SYSTEM_PROMPT"] = "From ENV"
  /\ PromptEntries(configIn.file.content) # {}
  /\ configIn.file.error_at = 0
  /\ configOut.res = Return("From ENV")

\* The keys and values load_env is to set from lines: each line that sets
\* one, unless an earlier line has the key.
PairsOf(lines) ==
  {ParseLine(lines[i]) : i \in {j \in DOMAIN lines :
     /\ ParseLine(lines[j]) # <<>>
     /\ \A k \in 1..(j - 1) :
          ParseLine(lines[k]) = <<>> \/ ParseLine(lines[k])[1] # ParseLine(lines[j])[1]}}

\* The step of load_env keeps every key the environment has with its value,
\* adds the pairs of lines whose key it has not, and nothing else, and
\* returns None.
LoadEnvSets(lines) ==
  /\ \A k \in DOMAIN environ : k \in DOMAIN environ' /\ environ'[k] = environ[k]
  /\ \A pair \in PairsOf(lines) :
       /\ pair[1] \in DOMAIN environ'
       /\ pair[1] \notin DOMAIN environ => environ'[pair[1]] = pair[2]
  /\ DOMAIN environ' = DOMAIN environ \cup {pair[1] : pair \in PairsOf(lines)}
  /\ configOut'.res = Return(None)

\* C23 as stated: load_env keeps the value of every key the environment
\* has and sets every pair of the file whose key it has not (the first of
\* the lines with that key); a file that is missing or that cannot be read
\* to its end leaves the environment as it was; nothing is raised.
C23_EveryPairSet ==
  [][LoadEnvCall =>
       IF configIn.file.exists /\ configIn.file.error_at = 0
       THEN LoadEnvSets(configIn.file.content)
       ELSE environ' = environ /\ configOut'.res = Return(None)]_vars

\* C23: load_env never raises and never changes the value of a key the
\* environment has; it sets the pairs of the lines it reads whose key is
\* not yet present, in file order, up to the end of the file or to the
\* line at which reading raises; a file that is missing or cannot be
\* opened leaves the environment as it was.
C23_LoadEnvKeepsExisting ==
  [][LoadEnvCall =>
       IF configIn.file.exists /\ configIn.file.error_at # 1
       THEN LoadEnvSets(LinesRead(configIn.file))
       ELSE environ' = environ /\ configOut'.res = Return(None)]_vars

C23_Witness ==
  /\ ConfigReturned("load_env")
  /\ configIn.file.error_at = 0
  /\ configIn.file.content =
       <<<<"MODEL", "=", "test-model">>,
         <<"OPENAI_BASE_URL", "=", "'", "https://example.com/api", "'">>>>
  /\ environ["MODEL"] = "env/model"
  /\ environ["OPENAI_BASE_URL"] = "https://example.com/api"

\* What K8sAgent construction is to resolve for an argument that counts as
\* given when given holds.
ResolvedExpected(given, argument, key, default) ==
  IF given THEN argument
  ELSE IF key \in DOMAIN environ THEN environ[key]
  ELSE default

AgentConstructed ==
  /\ ConfigReturned("K8sAgent")
  /\ configOut.res.kind = "return"

\* C24 as stated: the model and the base URL of a constructed agent are the
\* constructor argument whenever one is given, else the value of MODEL or
\* OPENAI_BASE_URL in the environment, else the fixed default.
C24_ArgumentGivenWins ==
  AgentConstructed =>
    /\ configOut.res.value.model =
         ResolvedExpected(configIn.model # None, configIn.model, "MODEL",
                          DefaultModel)
    /\ configOut.res.value.base_url =
         ResolvedExpected(configIn.base_url # None, configIn.base_url,
                          "OPENAI_BASE_URL", DefaultBaseUrl)

\* C24: the model and the base URL of a constructed agent are the
\* constructor argument when it is a non-empty string; when it is None or
\* empty, the value of MODEL or OPENAI_BASE_URL in the environment if the
\* variable is set (the empty string included); else the fixed default.
C24_ModelAndBaseUrl ==
  AgentConstructed =>
    /\ configOut.res.value.model =
         ResolvedExpected(configIn.model \notin {None, ""}, configIn.model,
                          "MODEL", DefaultModel)
    /\ configOut.res.value.base_url =
         ResolvedExpected(configIn.base_url \notin {None, ""}, configIn.base_url,
                          "OPENAI_BASE_URL", DefaultBaseUrl)

C24_Witness ==
  /\ AgentConstructed
  /\ configIn.model = "arg/model"
  /\ configIn.base_url = None
  /\ "MODEL" \in DOMAIN environ /\ environ["MODEL"] = "env/model"
  /\ "OPENAI_BASE_URL" \in DOMAIN environ
  /\ configOut.res.value.model = "arg/model"
  /\ configOut.res.value.base_url = "https://env.example/api"

ConstructionFailed ==
  /\ configOut.res.kind = "raise"
  /\ IsPrefix("Failed to load Kubernetes config: ", configOut.res.exc.msg)

\* C26 as stated: K8sClient construction tries in-cluster discovery first,
\* loads the kubeconfig only after in-cluster discovery failed, and raises
\* the construction error exactly when every source failed.
C26_InClusterFirst ==
  ConfigReturned("K8sClient") =>
    /\ Head(configOut.attempts) = "load_incluster_config()"
    /\ Len(configOut.attempts) > 1 => configIn.incluster # "ok"
    /\ ConstructionFailed <=>
         (configIn.incluster # "ok" /\ configIn.kube_config # "ok")
    /\ ~ ConstructionFailed => configOut.res.kind = "return"

\* C26: with a non-empty kubeconfig_path K8sClient construction loads that
\* file and nothing else; with none it tries in-cluster discovery first and
\* loads the default kubeconfig only when in-cluster discovery raised a
\* ConfigException; when a source that was tried fails and no other is
\* tried after it, the construction error is raised.
C26_CredentialOrder ==
  ConfigReturned("K8sClient") =>
    LET path == configIn.kubeconfig_path
    IN  /\ IF path \notin {None, ""}
           THEN /\ configOut.attempts = <<"load_kube_config(" \o path \o ")">>
                /\ ConstructionFailed <=> configIn.kube_config # "ok"
           ELSE /\ Head(configOut.attempts) = "load_incluster_config()"
                /\ IF configIn.incluster = "ConfigException"
                   THEN configOut.attempts =
                          <<"load_incluster_config()", "load_kube_config()">>
                   ELSE Len(configOut.attempts) = 1
                /\ ConstructionFailed <=>
                     \/ configIn.incluster \notin {"ok", "ConfigException"}
                     \/ /\ configIn.incluster = "ConfigException"
                        /\ configIn.kube_config # "ok"
        /\ ~ ConstructionFailed => configOut.res = Return(None)

C26_Witness ==
  /\ ConfigReturned("K8sClient")
  /\ configIn.kubeconfig_path = None
  /\ configIn.incluster = "ConfigException"
  /\ configIn.kube_config = "ok"
  /\ configOut.attempts = <<"load_incluster_config()", "load_kube_config()">>
  /\ configOut.res.kind = "return"

-----------------------------------------------------------------------------
(* Properties of two agents, checked under SpecTwo *)

\* A step of thread t: a statement group of chat, or a call of
\* reset_conversation or of set_system_prompt.
ThreadStep(t) ==
  \/ ChatBegin(t)
  \/ ModelQuery1(t)
  \/ HandleResponse(t)
  \/ ExecuteNextToolCall(t)
  \/ ModelQuery2(t)
  \/ AppendFinal(t)
  \/ HandleException(t)
  \/ reset_conversation(t)
  \/ set_system_prompt(t)

\* C28: whatever a thread does on its agent (a step of chat, a
\* reset_conversation, a set_system_prompt), in any interleaving with the
\* thread of the other agent, the conversation_history and the system
\* prompt of every other agent stay as they were.
C28_InstancesIndependent ==
  [][\A t \in Threads :
       ThreadStep(t) =>
         \A a \in Agents \ {frame[t].agent} :
           /\ conversation_history'[a] = conversation_history[a]
           /\ system_prompt'[a] = system_prompt[a]]_vars

C28_Witness ==
  /\ InTurn(1)
  /\ Len(conversation_history[1]) = 2
  /\ conversation_history[1][1] = UserMsg(UserMessages[2])
  /\ conversation_history[2] =
       <<UserMsg(UserMessages[1]), AssistantMsg(ModelReplyText)>>
  /\ system_prompt[1] # system_prompt[2]

====
